---- MODULE Spec2Model ----
(***************************************************************************)
(* Model of floodlight/io/statsperform.py: the StatsPerform readers.      *)
(*                                                                         *)
(* Every reader is a sequential procedure.  A behaviour of the model is    *)
(* one call of one reader: Init draws the reader, its input file and the   *)
(* caller's teamsheet arguments, and the actions are the statements of     *)
(* the reader in program order (one action per loop iteration), ending in  *)
(* pc = "done" (the reader returned `ret`) or pc = "error" (an exception   *)
(* left the reader, named in `err`).                                       *)
(*                                                                         *)
(* Python values of different types compare unequal; TLC refuses to        *)
(* compare a string with an integer.  Dictionary keys that the code mixes  *)
(* (player ids and team names) are therefore modelled as strings.          *)
(***************************************************************************)
EXTENDS Integers, Sequences, FiniteSets, TLC

VARIABLES
    reader,          \* the function that was called
    pc,              \* position in the reader
    file,            \* the input file (sequence of records / xml nodes)
    arg_home,        \* caller's home_teamsheet argument (None when omitted)
    arg_away,        \* caller's away_teamsheet argument (None when omitted)
    home_teamsheet,  \* local home_teamsheet after "create or check teamsheet objects"
    away_teamsheet,  \* local away_teamsheet
    pos,             \* number of records of the file consumed so far + 1
    segment,         \* read_event_data_xml: segment of the enclosing EventsHalf
    events,          \* read_open_event_data_csv: events[team][segment] (rows)
    event_lists,     \* read_event_data_xml: event_lists[team][segment] (rows)
    periods,         \* tracking readers: periods[segment] = <<start, end>>
    startframes,     \* _read_time_information_from_tracking_data_txt: startframes
    endframes,       \* _read_time_information_from_tracking_data_txt: endframes
    framerate_est,   \* read_tracking_data_txt: <<>> for None, else <<framerate>>
    last_sample,     \* _read_time_information_from_tracking_data_txt: <<>> or
                     \* <<last_gameclock, last_segment>>
    links_jID_to_xID,\* tracking readers: links_jID_to_xID[team][jID] = xID
    xydata,          \* tracking readers: xydata[team][segment][row][column]
    xid_base,        \* first index that Teamsheet.add_xIDs hands out
    warned,          \* warnings emitted so far
    ret,             \* returned data_objects
    temp_file,       \* the readers from a url: the temporary file exists
    arg_start,       \* plot_events: the argument start, <<>> for None, else <<start>>
    arg_end,         \* plot_events: the argument end, <<>> for None, else <<end>>
    use_frameclock,  \* plot_events: the argument use_frameclock
    drawn,           \* plot_events: the points of the calls of ax.scatter
    err              \* exception that ended the call ("" when none)

\* the variables of the event readers, of the tracking readers and of plot_events
plotVars == <<arg_start, arg_end, use_frameclock, drawn>>
evVars == <<segment, events, event_lists>>
trkVars == <<periods, startframes, endframes, framerate_est, last_sample, links_jID_to_xID, xydata, xid_base>>

vars == <<reader, pc, file, arg_home, arg_away, home_teamsheet, away_teamsheet,
          pos, evVars, trkVars, warned, ret, temp_file, plotVars, err>>

\* ------------------------------------------------------------------ bounds
\* records after the header line / nodes of the Events element
MaxEvents == 3

\* ----------------------------------------------------------------- helpers
None == [kind |-> "None"]

\* np.nan, the value of a cell or field without data; every number of the
\* modelled files is non-negative
NaN == -1

\* mutant of Resolve: the roster of the file, whatever the caller passed
ResolveDerivedOnly(supplied, derived) == derived

\* "create or check teamsheet objects": the teamsheet of a side is the one
\* the caller passed, or the one derived from the file when it passed none
Resolve(supplied, derived) == IF supplied = None THEN derived ELSE supplied

\* the variables of plot_events while a reader runs
PlotIdle == arg_start = <<>> /\ arg_end = <<>> /\ use_frameclock = FALSE /\ drawn = <<>>

\* the tracking variables while an event reader runs, and the reverse
TrkIdle ==
    /\ periods = <<>>
    /\ startframes = <<>>
    /\ endframes = <<>>
    /\ framerate_est = <<>>
    /\ last_sample = <<>>
    /\ links_jID_to_xID = <<>>
    /\ xydata = <<>>
    /\ xid_base = 0

EvIdle ==
    /\ segment = ""
    /\ events = <<>>
    /\ event_lists = <<>>

Range(s) == {s[k] : k \in DOMAIN s}

\* sequences over S of length 0..n
SeqsUpTo(S, n) == UNION {[1..k -> S] : k \in 0..n}

\* pandas Series.unique(): distinct values in order of first appearance
RECURSIVE Unique(_)
Unique(s) ==
    IF s = <<>> THEN <<>>
    ELSE LET init == Unique(SubSeq(s, 1, Len(s) - 1))
             last == s[Len(s)]
         IN  IF last \in Range(init) THEN init ELSE Append(init, last)

\* mutant of AppendRow: the row goes first
PrependRow(rows, row) == <<row>> \o rows

\* list.append / DataFrame.append(..., ignore_index=True): the row goes last
AppendRow(rows, row) == Append(rows, row)

\* ===================== StatsPerform open format: events ==================
\* the open-format team ids, statsperform.py line 228
team_ids == [Home |-> 1, Away |-> 2]
ball_id == 4
segments_csv == {"1", "2"}

\* float(team): the team field of a line as a number
Float(s) == CASE s = "1" -> 1 [] s = "2" -> 2 [] s = "3" -> 3 [] s = "4" -> 4

\* the event description (field 5) of a line is a sequence of pieces: " " is a
\* space, every other piece is text without a space
\* str.split(" "): the tokens between the spaces, each the sequence of its
\* pieces; two spaces in a row, or a space at either end, give an empty token
RECURSIVE Split(_)
Split(description) ==
    IF description = <<>> THEN <<(<<>>)>>
    ELSE LET init == Split(SubSeq(description, 1, Len(description) - 1))
             last == description[Len(description)]
         IN  IF last = " " THEN Append(init, <<>>)
             ELSE [init EXCEPT ![Len(init)] = Append(@, last)]

\* str.replace(old, ""): the text without the pieces old
Replace(description, old) == SelectSeq(description, LAMBDA piece : piece # old)

\* the token of one piece
Token(text) == <<text>>

\* mutant of Outcome: 0 unless the description holds the token Won
OutcomeZeroByDefault(description) ==
    IF Token("Won") \in Range(Split(description)) THEN 1 ELSE 0

\* lines 100-105: event["outcome"]
Outcome(description) ==
    IF Token("Won") \in Range(Split(description)) THEN 1
    ELSE IF Token("Lost") \in Range(Split(description)) THEN 0
    ELSE NaN

\* the csv head: the line whose 4th field is "current_phase"
HeadLine == [current_phase |-> "current_phase", team_id |-> "team_id",
             player_id |-> "player_id", event_id |-> 0,
             n_fields |-> 20, gameclock |-> "gameclock", frameclock |-> "frameclock",
             eID |-> <<"event">>]

\* team and player (jersey) fields that occur together on a line; "" is the
\* empty field of an event without team, "3" a team id outside the standard ids
TeamPlayer == {<<"", "">>, <<"1", "7">>, <<"2", "5">>, <<"3", "9">>}

\* the lines have the 20 fields of the format, and numbers in the fields 4
\* (gameclock) and 2 (frameclock)
CsvLines ==
    {[current_phase |-> s, team_id |-> tp[1], player_id |-> tp[2],
      n_fields |-> 20, gameclock |-> "12.5", frameclock |-> "125",
      eID |-> <<"Pass">>] :
        s \in segments_csv, tp \in TeamPlayer}

\* the lines ls with event_id (field 1) numbering them
Numbered(ls) == [k \in DOMAIN ls |-> [event_id |-> k] @@ ls[k]]

\* an event csv file: the head, then up to MaxEvents lines; event_id (field 1)
\* numbers the lines
CsvFiles == {<<HeadLine>> \o Numbered(ls) : ls \in SeqsUpTo(CsvLines, MaxEvents)}

\* the strings float() converts
NumericStrings == {"12.5", "125"}

\* the exception _read_open_event_csv_single_line raises on a line, "" when it
\* raises none: attrib[i] raises IndexError when the line has i fields or
\* fewer, float() raises ValueError on a string that is no number. Fields
\* after the 20th are not read.
DecodeError(line) ==
    IF line.n_fields <= 5 THEN "IndexError line 87"
    ELSE IF line.gameclock \notin NumericStrings THEN "ValueError line 90"
    ELSE IF line.frameclock \notin NumericStrings THEN "ValueError line 91"
    ELSE IF line.n_fields <= 9 THEN "IndexError line 95"
    ELSE IF line.n_fields <= 19 THEN "IndexError line 109"
    ELSE ""

\* _read_open_event_csv_single_line: (event, team, segment)
_read_open_event_csv_single_line(line) ==
    [err |-> DecodeError(line),
     event |-> [eID |-> Replace(line.eID, " "), tID |-> line.team_id, pID |-> line.player_id,
                outcome |-> Outcome(line.eID),
                qualifier |-> [event_id |-> line.event_id]],
     team |-> line.team_id,
     segment |-> line.current_phase]

\* rows below the head
DataLines(f) == SelectSeq(f, LAMBDA l : l.current_phase # "current_phase")

\* pd.read_csv of the event file (line 148): the columns that
\* read_teamsheets_from_open_data_csv reads; an empty team field is nan, and
\* jersey_no and player_id coincide in the modelled files
ReadEventCsv(f) ==
    [k \in DOMAIN DataLines(f) |->
        [team_id |-> IF DataLines(f)[k].team_id = "" THEN NaN
                     ELSE Float(DataLines(f)[k].team_id),
         player_id |-> DataLines(f)[k].player_id,
         jersey_no |-> DataLines(f)[k].player_id]]

Column(csv_df, col) == [k \in DOMAIN csv_df |-> csv_df[k][col]]

\* lines 166-178: the teamsheet of one team: the unique values of the rows of
\* the team, in order of first appearance
OpenTeamsheet(csv_df, tID) ==
    LET team_df == SelectSeq(csv_df, LAMBDA r : r.team_id = tID)
    IN  [kind |-> "Teamsheet",
         player |-> Unique(Column(team_df, "player_id")),
         jID |-> Unique(Column(team_df, "jersey_no")),
         pID |-> Unique(Column(team_df, "player_id")),
         tID |-> tID]

read_teamsheets_from_open_data_csv(csv_df) ==
    [Home |-> OpenTeamsheet(csv_df, team_ids.Home),
     Away |-> OpenTeamsheet(csv_df, team_ids.Away)]

\* the warnings of read_teamsheets_from_open_data_csv (lines 154-158)
OpenTeamsheetWarnings(csv_df) ==
    {<<"tID", tID>> : tID \in {t \in Range(Column(csv_df, "team_id")) :
        ~(t \in {team_ids.Home, team_ids.Away} \/ t = ball_id \/ t = NaN)}}

\* teamsheets a caller may pass to the open-format readers
SuppliedOpenHome == [kind |-> "Teamsheet", player |-> <<"7", "8">>, jID |-> <<"7", "8">>,
                     pID |-> <<"7", "8">>, tID |-> 1]
SuppliedOpenAway == [kind |-> "Teamsheet", player |-> <<"5">>, jID |-> <<"5">>,
                     pID |-> <<"5">>, tID |-> 2]

InitEventCsv ==
    /\ reader = "read_open_event_data_csv"
    /\ temp_file = FALSE
    /\ PlotIdle
    /\ pc = "start"
    /\ file \in CsvFiles
    /\ arg_home \in {None, SuppliedOpenHome}
    /\ arg_away \in {None, SuppliedOpenAway}
    /\ home_teamsheet = None
    /\ away_teamsheet = None
    /\ pos = 1
    /\ segment = ""
    /\ events = <<>>
    /\ event_lists = <<>>
    /\ TrkIdle
    /\ warned = {}
    /\ ret = None
    /\ err = ""

\* lines 226-246: bins and teamsheets
CsvSetup ==
    /\ reader = "read_open_event_data_csv"
    /\ pc = "start"
    /\ events' = [t \in {team_ids.Home, team_ids.Away} |-> [s \in segments_csv |-> <<>>]]
    /\ home_teamsheet' = Resolve(arg_home, read_teamsheets_from_open_data_csv(ReadEventCsv(file)).Home)
    /\ away_teamsheet' = Resolve(arg_away, read_teamsheets_from_open_data_csv(ReadEventCsv(file)).Away)
    /\ warned' = IF arg_home = None \/ arg_away = None
                 THEN warned \cup OpenTeamsheetWarnings(ReadEventCsv(file)) ELSE warned
    /\ pc' = "loop"
    /\ UNCHANGED <<reader, temp_file, plotVars, file, arg_home, arg_away, pos, segment, event_lists, ret, err, trkVars>>

\* mutant of CsvInsert: an event without team goes to the first team only
CsvInsertFirstTeamOnly(ev, e, team, seg) ==
    IF team # ""
    THEN [ev EXCEPT ![Float(team)][seg] = AppendRow(@, e)]
    ELSE [ev EXCEPT ![team_ids.Home][seg] = AppendRow(@, e)]

\* lines 264-274: insert to bin
CsvInsert(ev, e, team, seg) ==
    IF team # ""
    THEN [ev EXCEPT ![Float(team)][seg] = AppendRow(@, e)]
    ELSE [t \in DOMAIN ev |-> [ev[t] EXCEPT ![seg] = AppendRow(@, e)]]

\* lines 250-274: one iteration of the while loop
CsvReadLine ==
    /\ reader = "read_open_event_data_csv"
    /\ pc = "loop"
    /\ pos <= Len(file)
    /\ LET line == file[pos] IN
       IF line.n_fields <= 3
       THEN \* line.split(sep=",")[3]: no such field
            /\ pc' = "error"
            /\ err' = "IndexError line 258"
            /\ UNCHANGED <<pos, events>>
       ELSE IF line.current_phase = "current_phase"
       THEN \* skip the head
            /\ pos' = pos + 1
            /\ UNCHANGED <<pc, events, err>>
       ELSE LET r == _read_open_event_csv_single_line(line) IN
            IF r.err # ""
            THEN /\ pc' = "error"
                 /\ err' = r.err
                 /\ UNCHANGED <<pos, events>>
            ELSE IF r.team # "" /\ Float(r.team) \notin DOMAIN events
            THEN \* events[team]: no such key
                 /\ pc' = "error"
                 /\ err' = "KeyError"
                 /\ UNCHANGED <<pos, events>>
            ELSE /\ events' = CsvInsert(events, r.event, r.team, r.segment)
                 /\ pos' = pos + 1
                 /\ UNCHANGED <<pc, err>>
    /\ UNCHANGED <<reader, temp_file, plotVars, file, arg_home, arg_away, home_teamsheet, away_teamsheet,
                   segment, event_lists, warned, ret, trkVars>>

\* lines 276-298: assembly
CsvDataObjects(ev, home, away) ==
    [home_ht1 |-> ev[team_ids.Home]["1"],
     home_ht2 |-> ev[team_ids.Home]["2"],
     away_ht1 |-> ev[team_ids.Home]["1"],
     away_ht2 |-> ev[team_ids.Home]["2"],
     home_teamsheet |-> home,
     away_teamsheet |-> away]

CsvAssemble ==
    /\ reader = "read_open_event_data_csv"
    /\ pc = "loop"
    /\ pos > Len(file)
    /\ ret' = CsvDataObjects(events, home_teamsheet, away_teamsheet)
    /\ pc' = "done"
    /\ UNCHANGED <<reader, temp_file, plotVars, file, arg_home, arg_away, home_teamsheet, away_teamsheet,
                   pos, segment, events, event_lists, warned, err, trkVars>>

\* ---- read_open_event_data_csv on files with lines that do not fit the format
\* largest number of lines below the head
MaxMalformedLines == 2

\* numbers of fields of a line: the 20 of the format, fewer, and one more
FieldCounts == {3, 5, 9, 19, 20, 21}

\* a line of fewer fields is cut after its last field, a line of more fields
\* has fields appended
LinesOfAnyForm ==
    {[current_phase |-> "1", team_id |-> "1", player_id |-> "7",
      n_fields |-> n, gameclock |-> g, frameclock |-> f, eID |-> <<"Pass">>] :
        n \in FieldCounts, g \in {"12.5", "abc"}, f \in {"125", ""}}

FilesOfAnyForm ==
    {<<HeadLine>> \o Numbered(ls) : ls \in SeqsUpTo(LinesOfAnyForm, MaxMalformedLines)}

\* both teamsheets are passed: the file is read line by line only, and not
\* also by pd.read_csv in read_teamsheets_from_open_data_csv
InitMalformed ==
    /\ reader = "read_open_event_data_csv"
    /\ temp_file = FALSE
    /\ PlotIdle
    /\ pc = "start"
    /\ file \in FilesOfAnyForm
    /\ arg_home = SuppliedOpenHome
    /\ arg_away = SuppliedOpenAway
    /\ home_teamsheet = None
    /\ away_teamsheet = None
    /\ pos = 1
    /\ segment = ""
    /\ events = <<>>
    /\ event_lists = <<>>
    /\ TrkIdle
    /\ warned = {}
    /\ ret = None
    /\ err = ""

NextMalformed == CsvSetup \/ CsvReadLine \/ CsvAssemble

SpecMalformed == InitMalformed /\ [][NextMalformed]_vars

\* ---- read_open_event_data_csv on files whose lines differ in the description
\* largest number of pieces of a description
MaxPieces == 3

\* the pieces of the descriptions: the two words the outcome is read from, a
\* text that is neither, and the space
Pieces == {"Won", "Lost", "x", " "}
Descriptions == SeqsUpTo(Pieces, MaxPieces)

\* a line of the format with the description (field 5) d
LinesOfAnyOutcome ==
    {[current_phase |-> "1", team_id |-> t, player_id |-> "7",
      n_fields |-> 20, gameclock |-> "12.5", frameclock |-> "125", eID |-> d] :
        t \in {"1", "2"}, d \in Descriptions}

FilesOfAnyOutcome == {<<HeadLine>> \o Numbered(<<l>>) : l \in LinesOfAnyOutcome}

InitOutcome ==
    /\ reader = "read_open_event_data_csv"
    /\ temp_file = FALSE
    /\ PlotIdle
    /\ pc = "start"
    /\ file \in FilesOfAnyOutcome
    /\ arg_home = SuppliedOpenHome
    /\ arg_away = SuppliedOpenAway
    /\ home_teamsheet = None
    /\ away_teamsheet = None
    /\ pos = 1
    /\ segment = ""
    /\ events = <<>>
    /\ event_lists = <<>>
    /\ TrkIdle
    /\ warned = {}
    /\ ret = None
    /\ err = ""

NextOutcome == CsvSetup \/ CsvReadLine \/ CsvAssemble

SpecOutcome == InitOutcome /\ [][NextOutcome]_vars

\* ========================= StatsPerform format: events ====================
\* floodlight.io.utils.get_and_convert(dic, key, str): dictionary lookup and
\* conversion; a key that is absent gives str(None)
get_and_convert(dic, key) == IF key \in DOMAIN dic THEN dic[key] ELSE "None"

\* "HT" + str(period)
HT(IdHalf) == CASE IdHalf = "1" -> "HT1" [] IdHalf = "2" -> "HT2"

IdHalves == {"1", "2"}

\* the players of the MatchSheet element of the modelled files
MatchSheet == [Home |-> <<"10">>, Away |-> <<"20", "30">>]

\* IdActor1 values of the modelled files
Actors == {"10", "20", "30"}

XmlNodes ==
    {[tag |-> "EventsHalf", IdHalf |-> h, IdActor1 |-> ""] : h \in IdHalves}
    \cup {[tag |-> "Event", IdHalf |-> "", IdActor1 |-> a] : a \in Actors}

\* The nodes of the Events element in document order: every Event lies inside
\* an EventsHalf, so a document with nodes starts with an EventsHalf. Id is the
\* position of the node, one of the attributes of an Event.
XmlNodeSeqs ==
    {<<>>} \cup
    {<<h>> \o rest : h \in {n \in XmlNodes : n.tag = "EventsHalf"},
                     rest \in SeqsUpTo(XmlNodes, MaxEvents)}

XmlFiles ==
    {[MatchSheet |-> MatchSheet,
      Events |-> [k \in DOMAIN ns |->
                    [tag |-> ns[k].tag, IdHalf |-> ns[k].IdHalf,
                     IdActor1 |-> ns[k].IdActor1, Id |-> k]]] : ns \in XmlNodeSeqs}

XmlTeamsheet(pIDs) == [kind |-> "Teamsheet", pID |-> pIDs]

\* read_teamsheets_from_event_data_xml: the players of the MatchSheet
read_teamsheets_from_event_data_xml(f) ==
    [Home |-> XmlTeamsheet(f.MatchSheet.Home), Away |-> XmlTeamsheet(f.MatchSheet.Away)]

\* teamsheets a caller may pass to read_event_data_xml
SuppliedXmlHome == XmlTeamsheet(<<"10", "30">>)
SuppliedXmlAway == XmlTeamsheet(<<"20">>)

teams == <<"Home", "Away">>

\* lines 866-869: the segments of the file
XmlSegments(f) == {HT(n.IdHalf) : n \in {m \in Range(f.Events) : m.tag = "EventsHalf"}}

\* lines 887-890: links between pIDs and team
LinksPIDToTeam(home, away) ==
    [Home |-> [p \in Range(home.pID) |-> "Home"],
     Away |-> [p \in Range(away.pID) |-> "Away"]]

\* lines 907-914: the teams an event with actor pID is added to
TeamsAssigned(links_pID_to_team, pID) ==
    LET team == get_and_convert(links_pID_to_team, pID)
    IN  IF team = "None" THEN Range(teams) ELSE {team}

\* lines 916-948: the row appended for an event
XmlRow(node) == [pID |-> node.IdActor1, qualifier |-> [Id |-> node.Id]]

InitEventXml ==
    /\ reader = "read_event_data_xml"
    /\ temp_file = FALSE
    /\ PlotIdle
    /\ pc = "start"
    /\ file \in XmlFiles
    /\ arg_home \in {None, SuppliedXmlHome}
    /\ arg_away \in {None, SuppliedXmlAway}
    /\ home_teamsheet = None
    /\ away_teamsheet = None
    /\ pos = 1
    /\ segment = ""
    /\ events = <<>>
    /\ event_lists = <<>>
    /\ TrkIdle
    /\ warned = {}
    /\ ret = None
    /\ err = ""

\* read_event_data_xml runs when it is called, and when
\* read_event_data_from_url calls it (lines 1188-1192)
XmlCallers == {"read_event_data_xml", "read_event_data_from_url"}

\* lines 853-896: segments, teamsheets and bins
XmlSetup ==
    /\ reader \in XmlCallers
    /\ pc = "start"
    /\ home_teamsheet' = Resolve(arg_home, read_teamsheets_from_event_data_xml(file).Home)
    /\ away_teamsheet' = Resolve(arg_away, read_teamsheets_from_event_data_xml(file).Away)
    /\ event_lists' = [t \in Range(teams) |-> [s \in XmlSegments(file) |-> <<>>]]
    /\ pc' = "loop"
    /\ UNCHANGED <<reader, temp_file, plotVars, file, arg_home, arg_away, pos, segment, events, warned, ret, err, trkVars>>

\* lines 899-948: the next node of the Events element: an EventsHalf sets the
\* segment, an Event is appended to the lists of its assigned teams
XmlNode ==
    /\ reader \in XmlCallers
    /\ pc = "loop"
    /\ pos <= Len(file.Events)
    /\ LET node == file.Events[pos] IN
       IF node.tag = "EventsHalf"
       THEN /\ segment' = HT(node.IdHalf)
            /\ UNCHANGED event_lists
       ELSE LET assigned == TeamsAssigned(LinksPIDToTeam(home_teamsheet, away_teamsheet),
                                          node.IdActor1)
            IN  /\ event_lists' =
                       [t \in DOMAIN event_lists |->
                          IF t \in assigned
                          THEN [event_lists[t] EXCEPT ![segment] = AppendRow(@, XmlRow(node))]
                          ELSE event_lists[t]]
                /\ UNCHANGED segment
    /\ pos' = pos + 1
    /\ UNCHANGED <<reader, temp_file, plotVars, pc, file, arg_home, arg_away, home_teamsheet, away_teamsheet,
                   events, warned, ret, err, trkVars>>

\* lines 960-984: assembly; a file without HT1 or HT2 has no such list
XmlAssemble ==
    /\ reader \in XmlCallers
    /\ pc = "loop"
    /\ pos > Len(file.Events)
    /\ IF {"HT1", "HT2"} \subseteq XmlSegments(file)
       THEN /\ ret' = [home_ht1 |-> event_lists["Home"]["HT1"],
                       home_ht2 |-> event_lists["Home"]["HT2"],
                       away_ht1 |-> event_lists["Away"]["HT1"],
                       away_ht2 |-> event_lists["Away"]["HT2"],
                       home_teamsheet |-> home_teamsheet,
                       away_teamsheet |-> away_teamsheet]
            /\ pc' = IF reader = "read_event_data_xml" THEN "done" ELSE "unpack"
            /\ UNCHANGED err
       ELSE /\ pc' = "error"
            /\ err' = "KeyError"
            /\ UNCHANGED ret
    /\ UNCHANGED <<reader, temp_file, plotVars, file, arg_home, arg_away, home_teamsheet, away_teamsheet,
                   pos, segment, events, event_lists, warned, trkVars>>

\* ------------------------------------------------- the two event readers
InitEvents == InitEventCsv \/ InitEventXml

NextEvents ==
    \/ CsvSetup
    \/ CsvReadLine
    \/ CsvAssemble
    \/ XmlSetup
    \/ XmlNode
    \/ XmlAssemble

SpecEvents == InitEvents /\ [][NextEvents]_vars

\* ------------------------------------------------ claims on the event readers
IsCsv == reader = "read_open_event_data_csv"
IsXml == reader = "read_event_data_xml"

\* source position of the rows of a table
CsvIds(rows) == [k \in DOMAIN rows |-> rows[k].qualifier.event_id]
XmlIds(rows) == [k \in DOMAIN rows |-> rows[k].qualifier.Id]

\* number of rows of a table that come from source position id
Occurrences(ids, id) == Cardinality({k \in DOMAIN ids : ids[k] = id})

\* the line with event_id k is the (k+1)th line of the file: the head comes first
CsvLineOf(k) == file[k + 1]

\* event_ids of the lines consumed so far
CsvProcessed == {file[k].event_id : k \in {j \in 1..(pos - 1) : file[j].current_phase # "current_phase"}}

\* positions of the Event nodes consumed so far
XmlProcessed == {k \in 1..(pos - 1) : file.Events[k].tag = "Event"}

\* segment of the EventsHalf that encloses node k
XmlSegmentOf(k) ==
    LET halves == {j \in 1..k : file.Events[j].tag = "EventsHalf"}
        last == CHOOSE j \in halves : \A i \in halves : i <= j
    IN  HT(file.Events[last].IdHalf)

Other(team) == IF team = "Home" THEN "Away" ELSE "Home"

XmlInRoster(team, pID) ==
    pID \in Range((IF team = "Home" THEN home_teamsheet ELSE away_teamsheet).pID)

\* C1: in read_event_data_xml an event whose actor is on exactly one team's
\* teamsheet is in that team's table of its segment and in no table of the
\* other team.
C1_ActorOfOneTeamOnlyInItsTable ==
    (IsXml /\ pc # "start") =>
        \A k \in XmlProcessed : \A team \in Range(teams) :
            (XmlInRoster(team, file.Events[k].IdActor1)
             /\ ~XmlInRoster(Other(team), file.Events[k].IdActor1))
            => /\ Occurrences(XmlIds(event_lists[team][XmlSegmentOf(k)]), k) = 1
               /\ \A s \in DOMAIN event_lists[Other(team)] :
                      Occurrences(XmlIds(event_lists[Other(team)][s]), k) = 0

\* event_ids of the lines of half seg whose team field is in tms
CsvSourceIds(seg, tms) ==
    {l.event_id : l \in {m \in Range(DataLines(file)) :
                            m.current_phase = seg /\ m.team_id \in tms}}

\* C2: read_open_event_data_csv returns for each half an away table with
\* exactly the events of that half whose team field is 2 or empty, and a home
\* table with exactly those whose team field is 1 or empty.
C2_ReturnedTablesByTeam ==
    (IsCsv /\ pc = "done") =>
        /\ Range(CsvIds(ret.home_ht1)) = CsvSourceIds("1", {"1", ""})
        /\ Range(CsvIds(ret.home_ht2)) = CsvSourceIds("2", {"1", ""})
        /\ Range(CsvIds(ret.away_ht1)) = CsvSourceIds("1", {"2", ""})
        /\ Range(CsvIds(ret.away_ht2)) = CsvSourceIds("2", {"2", ""})

\* the row of source position id in a table that holds it once
RowOf(rows, ids, id) == rows[CHOOSE k \in DOMAIN ids : ids[k] = id]

OnceInBoth(home, away, homeIds, awayIds, id) ==
    /\ Occurrences(homeIds, id) = 1
    /\ Occurrences(awayIds, id) = 1
    /\ RowOf(home, homeIds, id) = RowOf(away, awayIds, id)

RetTable(team, half) ==
    CASE team = "Home" /\ half = "1" -> ret.home_ht1
      [] team = "Home" /\ half = "2" -> ret.home_ht2
      [] team = "Away" /\ half = "1" -> ret.away_ht1
      [] team = "Away" /\ half = "2" -> ret.away_ht2

HalfOf(seg) == IF seg \in {"1", "HT1"} THEN "1" ELSE "2"

\* C3: in both event readers an event for which no team can be resolved (empty
\* team field / actor on no teamsheet) is, once its record is consumed, exactly
\* once in the home table and exactly once in the away table of its segment,
\* with the same row in both; the same holds of the returned tables.
C3_UnresolvedEventOnceInBothTables ==
    /\ (IsCsv /\ pc # "start") =>
          \A id \in CsvProcessed :
              CsvLineOf(id).team_id = "" =>
                 LET seg == CsvLineOf(id).current_phase
                     h == events[team_ids.Home][seg]
                     a == events[team_ids.Away][seg]
                 IN  /\ OnceInBoth(h, a, CsvIds(h), CsvIds(a), id)
                     /\ RowOf(h, CsvIds(h), id)
                            = _read_open_event_csv_single_line(CsvLineOf(id)).event
                     /\ pc = "done" =>
                           OnceInBoth(RetTable("Home", HalfOf(seg)), RetTable("Away", HalfOf(seg)),
                                      CsvIds(RetTable("Home", HalfOf(seg))),
                                      CsvIds(RetTable("Away", HalfOf(seg))), id)
    /\ (IsXml /\ pc # "start") =>
          \A k \in XmlProcessed :
              (\A team \in Range(teams) : ~XmlInRoster(team, file.Events[k].IdActor1)) =>
                 LET seg == XmlSegmentOf(k)
                     h == event_lists["Home"][seg]
                     a == event_lists["Away"][seg]
                 IN  /\ OnceInBoth(h, a, XmlIds(h), XmlIds(a), k)
                     /\ RowOf(h, XmlIds(h), k) = XmlRow(file.Events[k])
                     /\ pc = "done" =>
                           OnceInBoth(RetTable("Home", HalfOf(seg)), RetTable("Away", HalfOf(seg)),
                                      XmlIds(RetTable("Home", HalfOf(seg))),
                                      XmlIds(RetTable("Away", HalfOf(seg))), k)

\* a csv file with an event without team between events of the two teams has
\* been read to the end
C3_Witness ==
    /\ IsCsv /\ pc = "done"
    /\ Len(file) = 4
    /\ file[2].team_id = "1" /\ file[3].team_id = "" /\ file[4].team_id = "2"
    /\ file[2].current_phase = "1" /\ file[3].current_phase = "1"
    /\ Len(ret.home_ht1) = 2

StrictlyIncreasing(ids) == \A i, j \in DOMAIN ids : i < j => ids[i] < ids[j]

\* C4: after any prefix of the file every (team, segment) table holds its rows
\* in source order: the source positions of its rows are strictly increasing,
\* lie in the consumed prefix, belong to records of that segment, and each row
\* is the decoded record of its position. The returned tables are in source
\* order as well.
C4_TablesInSourceOrder ==
    /\ (IsCsv /\ pc # "start") =>
          /\ \A t \in DOMAIN events : \A s \in DOMAIN events[t] :
                LET rows == events[t][s] ids == CsvIds(rows) IN
                /\ StrictlyIncreasing(ids)
                /\ \A k \in DOMAIN rows :
                      /\ ids[k] \in CsvProcessed
                      /\ CsvLineOf(ids[k]).current_phase = s
                      /\ rows[k] = _read_open_event_csv_single_line(CsvLineOf(ids[k])).event
          /\ pc = "done" =>
                \A t \in Range(teams) : \A h \in {"1", "2"} :
                    StrictlyIncreasing(CsvIds(RetTable(t, h)))
    /\ (IsXml /\ pc # "start") =>
          /\ \A t \in DOMAIN event_lists : \A s \in DOMAIN event_lists[t] :
                LET rows == event_lists[t][s] ids == XmlIds(rows) IN
                /\ StrictlyIncreasing(ids)
                /\ \A k \in DOMAIN rows :
                      /\ ids[k] \in XmlProcessed
                      /\ XmlSegmentOf(ids[k]) = s
                      /\ rows[k] = XmlRow(file.Events[ids[k]])
          /\ pc = "done" =>
                \A t \in Range(teams) : \A h \in {"1", "2"} :
                    StrictlyIncreasing(XmlIds(RetTable(t, h)))

\* an xml file with three events of one half has been read to the end
C4_Witness ==
    /\ IsXml /\ pc = "done"
    /\ Len(ret.home_ht1) >= 2
    /\ Len(ret.away_ht1) >= 2

\* ===================== StatsPerform open format: tracking ===============
\* the elements of a finite set of integers in ascending order
RECURSIVE Ascending(_)
Ascending(S) ==
    IF S = {} THEN <<>>
    ELSE LET m == CHOOSE x \in S : \A y \in S : x <= y
         IN  <<m>> \o Ascending(S \ {m})

\* mutant of Jumps: a boundary only where more than one frame is missing
JumpsOverTwo(frame_values) ==
    {k \in 2..Len(frame_values) : frame_values[k] - frame_values[k - 1] > 2}

\* line 56: np.where(np.diff(frame_values, prepend=frame_values[0]) > 1), the
\* positions (counted from 1) whose difference to the previous value is > 1
Jumps(frame_values) ==
    {k \in 2..Len(frame_values) : frame_values[k] - frame_values[k - 1] > 1}

\* lines 52-64 of _create_metadata_from_open_csv_df: periods[segment] = (start, end)
_create_metadata_from_open_csv_df(csv_df) ==
    LET frame_values == Unique([k \in DOMAIN csv_df |-> csv_df[k].frame_count])
        seg_idx == <<1>> \o Ascending(Jumps(frame_values)) \o <<Len(frame_values) + 1>>
    IN  [seg \in 0..(Len(seg_idx) - 2) |->
            <<frame_values[seg_idx[seg + 1]], frame_values[seg_idx[seg + 2] - 1]>>]

\* ---- the period resolver on its own
\* largest frame number of the inputs of the resolver
MaxFrameValue == 7

\* the frame sequence of the documentation
ExampleFrames == <<100, 101, 102, 205, 206>>

\* data frames with one row per frame, frame numbers strictly increasing
PeriodInputs ==
    {[k \in DOMAIN fs |-> [frame_count |-> fs[k]]] :
        fs \in {Ascending(S) : S \in SUBSET (1..MaxFrameValue) \ {{}}} \cup {ExampleFrames}}

InitPeriods ==
    /\ reader = "_create_metadata_from_open_csv_df"
    /\ temp_file = FALSE
    /\ PlotIdle
    /\ pc = "start"
    /\ file \in PeriodInputs
    /\ arg_home = None /\ arg_away = None
    /\ home_teamsheet = None /\ away_teamsheet = None
    /\ pos = 1
    /\ EvIdle
    /\ TrkIdle
    /\ warned = {}
    /\ ret = None
    /\ err = ""

CreateMetadata ==
    /\ reader = "_create_metadata_from_open_csv_df"
    /\ pc = "start"
    /\ periods' = _create_metadata_from_open_csv_df(file)
    /\ pc' = "done"
    /\ UNCHANGED <<reader, temp_file, plotVars, file, arg_home, arg_away, home_teamsheet, away_teamsheet, pos,
                   evVars, startframes, endframes, framerate_est, last_sample,
                   links_jID_to_xID, xydata, xid_base, warned, ret, err>>

SpecPeriods == InitPeriods /\ [][CreateMetadata]_vars

\* maximal runs of consecutive numbers of a set, as <<first, last>>
Runs(S) ==
    {<<a, b>> \in S \X S :
        /\ a <= b
        /\ \A f \in a..b : f \in S
        /\ (a - 1) \notin S
        /\ (b + 1) \notin S}

\* C5: for a strictly increasing frame sequence the resolver yields exactly one
\* segment per maximal run of consecutive frames, keyed 0, 1, 2, ... in order,
\* each with the bounds (first frame, last frame) of its run; the frames
\* 100,101,102,205,206 give (100,102) and (205,206), and a run of one frame
\* has start = end.
C5_OneSegmentPerRun ==
    (reader = "_create_metadata_from_open_csv_df" /\ pc = "done") =>
        LET S == {file[k].frame_count : k \in DOMAIN file} IN
        /\ DOMAIN periods = 0..(Cardinality(Runs(S)) - 1)
        /\ \A seg \in DOMAIN periods : periods[seg] \in Runs(S)
        /\ \A seg, nxt \in DOMAIN periods : seg < nxt => periods[seg][2] < periods[nxt][1]
        /\ \A f \in S : ((f - 1) \notin S /\ (f + 1) \notin S) =>
               \E seg \in DOMAIN periods : periods[seg] = <<f, f>>
        /\ S = Range(ExampleFrames) => periods = (0 :> <<100, 102>> @@ 1 :> <<205, 206>>)

\* the resolver has run on frames with three runs, one of them a single frame
C5_Witness ==
    /\ reader = "_create_metadata_from_open_csv_df" /\ pc = "done"
    /\ {file[k].frame_count : k \in DOMAIN file} = {1, 2, 4, 6, 7}
    /\ periods = (0 :> <<1, 2>> @@ 1 :> <<4, 4>> @@ 2 :> <<6, 7>>)

\* ---- Teamsheet methods used by the tracking readers
\* Teamsheet.add_xIDs: the column xID, an increasing index over the rows of the
\* teamsheet that starts at xid_base
add_xIDs(teamsheet, base) ==
    [xID |-> [k \in DOMAIN teamsheet.jID |-> base + k - 1]] @@ teamsheet

\* Teamsheet.get_links("jID", "xID"): the dictionary jID -> xID
get_links(teamsheet) ==
    [j \in Range(teamsheet.jID) |->
        teamsheet.xID[CHOOSE k \in DOMAIN teamsheet.jID :
                         /\ teamsheet.jID[k] = j
                         /\ \A i \in DOMAIN teamsheet.jID : teamsheet.jID[i] = j => i <= k]]

\* lines 362-366 / 1048-1052: the xID column is added to a teamsheet without one
WithXIDs(teamsheet, base) ==
    IF "xID" \in DOMAIN teamsheet THEN teamsheet ELSE add_xIDs(teamsheet, base)

\* lines 438-439 and 1112-1113: the columns of the player with index xID
XCol(xID) == (xID - 1) * 2
YCol(xID) == (xID - 1) * 2 + 1

\* ---- numpy arrays
\* mutant of Full: an array of zeros
FullOfZeros(rows, columns) == [r \in 0..(rows - 1) |-> [c \in 0..(columns - 1) |-> 0]]

\* np.full([rows, columns], np.nan); rows and columns are counted from 0
Full(rows, columns) == [r \in 0..(rows - 1) |-> [c \in 0..(columns - 1) |-> NaN]]

Rows(xy) == Cardinality(DOMAIN xy)
Columns(xy) == IF Rows(xy) = 0 THEN 0 ELSE Cardinality(DOMAIN xy[0])

\* an index i of an axis of length n: a negative index counts from the end
ValidIndex(i, n) == -n <= i /\ i < n
Index(i, n) == IF i < 0 THEN i + n ELSE i

\* xy[start:end, col] = values: a single value is broadcast, any other number
\* of values has to match the length of the slice
SliceFits(start, end, values) ==
    \/ Len(values) = 1
    \/ Len(values) = (IF end > start THEN end - start ELSE 0)

SetSlice(xy, start, end, col, values) ==
    [r \in DOMAIN xy |->
        IF start <= r /\ r < end
        THEN [xy[r] EXCEPT ![Index(col, Columns(xy))] =
                 IF Len(values) = 1 THEN values[1] ELSE values[r - start + 1]]
        ELSE xy[r]]

\* ---- read_open_tracking_data_csv
\* largest frame number of a tracking csv file
MaxFrames == 4

\* the positions of the files: different for every frame and player, and
\* pos_x different from pos_y
PosX(frame, jersey) == 100 * frame + jersey
PosY(frame, jersey) == 100 * frame + jersey + 50

TrkRow(frame, team, jersey) ==
    [frame_count |-> frame, team_id |-> team, player_id |-> jersey, jersey_no |-> jersey,
     pos_x |-> PosX(frame, jersey), pos_y |-> PosY(frame, jersey)]

\* the rows of one frame: home player 7 when present, home player 9, away
\* player 5, and the ball (team_id 4) when present
FrameRows(frame, with7, withBall) ==
    (IF with7 THEN <<TrkRow(frame, 1, 7)>> ELSE <<>>)
    \o <<TrkRow(frame, 1, 9), TrkRow(frame, 2, 5)>>
    \o (IF withBall THEN <<TrkRow(frame, 4, 0)>> ELSE <<>>)

RECURSIVE TrkCsvFile(_, _, _)
TrkCsvFile(frames, frames7, framesBall) ==
    IF frames = <<>> THEN <<>>
    ELSE FrameRows(frames[1], frames[1] \in frames7, frames[1] \in framesBall)
         \o TrkCsvFile(Tail(frames), frames7, framesBall)

\* the tracking csv files: rows in ascending frame order
TrkCsvFiles ==
    UNION {{TrkCsvFile(Ascending(F), F7, FB) : F7 \in SUBSET F, FB \in SUBSET F} :
              F \in SUBSET (1..MaxFrames) \ {{}}}

\* a teamsheet a caller may pass: player 11 is in no row of the files
SuppliedTrkHome == [kind |-> "Teamsheet", player |-> <<9, 11, 7>>, jID |-> <<9, 11, 7>>,
                    pID |-> <<9, 11, 7>>, tID |-> 1]

\* a teamsheet a caller may pass: player 6 is in no row of the files
SuppliedTrkAway == [kind |-> "Teamsheet", player |-> <<6, 5>>, jID |-> <<6, 5>>,
                    pID |-> <<6, 5>>, tID |-> 2]

InitTrackingCsv ==
    /\ reader = "read_open_tracking_data_csv"
    /\ temp_file = FALSE
    /\ PlotIdle
    /\ pc = "start"
    /\ file \in TrkCsvFiles
    /\ arg_home \in {None, SuppliedTrkHome}
    /\ arg_away \in {None, SuppliedTrkAway}
    /\ home_teamsheet = None
    /\ away_teamsheet = None
    /\ pos = 0
    /\ EvIdle
    /\ periods = <<>>
    /\ startframes = <<>>
    /\ endframes = <<>>
    /\ framerate_est = <<>>
    /\ last_sample = <<>>
    /\ links_jID_to_xID = <<>>
    /\ xydata = <<>>
    /\ xid_base \in {0, 1}
    /\ warned = {}
    /\ ret = None
    /\ err = ""

\* lines 342-345: check for additional tIDs
TrkCsvWarnings(dat_df) ==
    {<<"Team ID", ID>> : ID \in {t \in Range(Column(dat_df, "team_id")) :
        ~(t \in {team_ids.Home, team_ids.Away} \/ t = ball_id)}}

\* lines 375-381: number_of_frames[segment]
NumberOfFramesCsv(per) == per[2] - per[1] + 1

\* line 376: number_of_players[team]
NumberOfPlayersCsv(links) == Cardinality(DOMAIN links)

\* lines 383-410: bins
TrkCsvBins(per, links) ==
    [Home |-> [seg \in DOMAIN per |->
                  Full(NumberOfFramesCsv(per[seg]), NumberOfPlayersCsv(links.Home) * 2)],
     Away |-> [seg \in DOMAIN per |->
                  Full(NumberOfFramesCsv(per[seg]), NumberOfPlayersCsv(links.Away) * 2)],
     Ball |-> [seg \in DOMAIN per |-> Full(NumberOfFramesCsv(per[seg]), 2)]]

\* lines 335-410: teamsheets, links, periods and bins. add_xIDs changes the
\* object it is called on: a teamsheet of the caller too.
TrkCsvSetup ==
    /\ reader = "read_open_tracking_data_csv"
    /\ pc = "start"
    /\ LET derived == read_teamsheets_from_open_data_csv(file)
           home == WithXIDs(Resolve(arg_home, derived.Home), xid_base)
           away == WithXIDs(Resolve(arg_away, derived.Away), xid_base)
           links == [Home |-> get_links(home), Away |-> get_links(away)]
           per == _create_metadata_from_open_csv_df(file)
       IN  /\ home_teamsheet' = home
           /\ away_teamsheet' = away
           /\ arg_home' = IF arg_home = None THEN None ELSE home
           /\ arg_away' = IF arg_away = None THEN None ELSE away
           /\ links_jID_to_xID' = links
           /\ periods' = per
           /\ xydata' = TrkCsvBins(per, links)
    /\ warned' = warned \cup TrkCsvWarnings(file)
                 \cup (IF arg_home = None \/ arg_away = None
                       THEN OpenTeamsheetWarnings(file) ELSE {})
    /\ pos' = 0
    /\ pc' = "segments"
    /\ UNCHANGED <<reader, temp_file, plotVars, file, evVars, startframes, endframes, framerate_est, last_sample,
                   xid_base, ret, err>>

\* periods[segment][0] <= frame <= periods[segment][-1]
InPeriod(per, frame) == per[1] <= frame /\ frame <= per[Len(per)]

Result(e, xy) == [err |-> e, xy |-> xy]

\* lines 419-443: the rows pl_df of one player are written to the array of the
\* team for the segment with bounds per
ScatterPlayer(xy, per, links, pl_df) ==
    LET appearance == SelectSeq(pl_df, LAMBDA r : InPeriod(per, r.frame_count))
        jrsy == pl_df[1].jersey_no
    IN  IF appearance = <<>> THEN Result("", xy)
        ELSE IF jrsy \notin DOMAIN links THEN Result("KeyError line 438", xy)
        ELSE LET x_col == XCol(links[jrsy])
                 y_col == YCol(links[jrsy])
                 start == appearance[1].frame_count - per[1]
                 end == appearance[Len(appearance)].frame_count - per[1] + 1
             IN  IF ~ValidIndex(x_col, Columns(xy)) THEN Result("IndexError line 442", xy)
                 ELSE IF ~SliceFits(start, end, appearance)
                      THEN Result("ValueError line 442", xy)
                 ELSE IF ~ValidIndex(y_col, Columns(xy)) THEN Result("IndexError line 443", xy)
                 ELSE Result("", SetSlice(SetSlice(xy, start, end, x_col,
                                                   Column(appearance, "pos_x")),
                                          start, end, y_col, Column(appearance, "pos_y")))

\* lines 416-443: the players of a team, in order of first appearance
RECURSIVE ScatterPlayers(_, _, _, _, _)
ScatterPlayers(xy, per, links, team_df, pIDs) ==
    IF pIDs = <<>> THEN Result("", xy)
    ELSE LET pl_df == SelectSeq(team_df, LAMBDA r : r.player_id = pIDs[1])
             one == ScatterPlayer(xy, per, links, pl_df)
         IN  IF one.err # "" THEN one
             ELSE ScatterPlayers(one.xy, per, links, team_df, Tail(pIDs))

ScatterTeam(xy, per, links, dat_df, tID) ==
    LET team_df == SelectSeq(dat_df, LAMBDA r : r.team_id = tID)
    IN  ScatterPlayers(xy, per, links, team_df, Unique(Column(team_df, "player_id")))

\* lines 445-452: the ball rows of the segment are written to both columns. An
\* empty np.array([]) is an array of floats, which is no index.
ScatterBall(xy, per, dat_df) ==
    LET ball_df == SelectSeq(dat_df, LAMBDA r : r.team_id = 4)
        appearance == SelectSeq(ball_df, LAMBDA r : InPeriod(per, r.frame_count))
    IN  IF ball_df = <<>> THEN Result("IndexError line 451", xy)
        ELSE IF ~SliceFits(0, Rows(xy), appearance) THEN Result("ValueError line 451", xy)
        ELSE Result("", SetSlice(SetSlice(xy, 0, Rows(xy), 0, Column(appearance, "pos_x")),
                                 0, Rows(xy), 1, Column(appearance, "pos_x")))

\* lines 413-455: one iteration of the loop over the segments
TrkCsvSegment ==
    /\ reader = "read_open_tracking_data_csv"
    /\ pc = "segments"
    /\ pos \in DOMAIN periods
    /\ LET home == ScatterTeam(xydata.Home[pos], periods[pos], links_jID_to_xID.Home,
                               file, team_ids.Home)
           away == ScatterTeam(xydata.Away[pos], periods[pos], links_jID_to_xID.Away,
                               file, team_ids.Away)
           ball == ScatterBall(xydata.Ball[pos], periods[pos], file)
           failed == IF home.err # "" THEN home.err
                     ELSE IF away.err # "" THEN away.err ELSE ball.err
       IN  IF failed # ""
           THEN /\ pc' = "error"
                /\ err' = failed
                /\ UNCHANGED <<pos, xydata>>
           ELSE /\ xydata' = [Home |-> [xydata.Home EXCEPT ![pos] = home.xy],
                              Away |-> [xydata.Away EXCEPT ![pos] = away.xy],
                              Ball |-> [xydata.Ball EXCEPT ![pos] = ball.xy]]
                /\ pos' = pos + 1
                /\ UNCHANGED <<pc, err>>
    /\ UNCHANGED <<reader, temp_file, plotVars, file, arg_home, arg_away, home_teamsheet, away_teamsheet, evVars,
                   periods, startframes, endframes, framerate_est, last_sample,
                   links_jID_to_xID, xid_base, warned, ret>>

\* lines 457-492: the XY objects of segments 0 and 1 (the possession codes and
\* the pitch are not modelled)
TrkCsvAssemble ==
    /\ reader = "read_open_tracking_data_csv"
    /\ pc = "segments"
    /\ pos \notin DOMAIN periods
    /\ IF {0, 1} \subseteq DOMAIN periods
       THEN /\ ret' = [home_ht1 |-> xydata.Home[0], home_ht2 |-> xydata.Home[1],
                       away_ht1 |-> xydata.Away[0], away_ht2 |-> xydata.Away[1],
                       ball_ht1 |-> xydata.Ball[0], ball_ht2 |-> xydata.Ball[1],
                       home_teamsheet |-> home_teamsheet,
                       away_teamsheet |-> away_teamsheet]
            /\ pc' = "done"
            /\ UNCHANGED err
       ELSE /\ pc' = "error"
            /\ err' = "KeyError line 458"
            /\ UNCHANGED ret
    /\ UNCHANGED <<reader, temp_file, plotVars, file, arg_home, arg_away, home_teamsheet, away_teamsheet, pos,
                   evVars, trkVars, warned>>

\* ===================== StatsPerform format: tracking ====================
\* A jersey number of the txt file is a string of digits, modelled as the
\* sequence of its digits.
\* int(jID)
RECURSIVE IntOf(_)
IntOf(digits) ==
    IF digits = <<>> THEN 0
    ELSE 10 * IntOf(SubSeq(digits, 1, Len(digits) - 1)) + digits[Len(digits)]

\* a < b for strings: the order of list.sort() on strings
RECURSIVE StrLess(_, _)
StrLess(a, b) ==
    IF b = <<>> THEN FALSE
    ELSE IF a = <<>> THEN TRUE
    ELSE IF a[1] # b[1] THEN a[1] < b[1]
    ELSE StrLess(Tail(a), Tail(b))

\* list(S) followed by .sort(), for a set of strings
RECURSIVE SortedStrings(_)
SortedStrings(S) ==
    IF S = {} THEN <<>>
    ELSE LET m == CHOOSE x \in S : \A y \in S \ {x} : StrLess(x, y)
         IN  <<m>> \o SortedStrings(S \ {m})

\* ---- the txt files
\* number of lines (samples) of a txt file
MaxLines == 3

\* gameclock differences between consecutive lines of a segment, milliseconds
Deltas == {40, 60}

\* one line: the time chunk (gameclock, segment), the player chunks of both
\* teams (positions[team][jID] = (x, y)) and the ball chunk, when there is one
TxtLine(gameclock, seg, home, away, withBall) ==
    [gameclock |-> gameclock,
     segment |-> seg,
     positions |->
        [Home |-> [j \in home |-> <<PosX(gameclock, IntOf(j)), PosY(gameclock, IntOf(j))>>],
         Away |-> [j \in away |-> <<PosX(gameclock, IntOf(j)), PosY(gameclock, IntOf(j))>>]],
     ball |-> IF withBall THEN <<<<PosX(gameclock, 0), PosY(gameclock, 0)>>>> ELSE <<>>]

\* home player 2 and away player 5 are on every line, home player 10 and the
\* ball on some
TxtLineChoices == [d : Deltas, with10 : BOOLEAN, withBall : BOOLEAN]

\* the lines of one segment: the gameclock starts at 0 and grows by the delta
\* of each line
RECURSIVE TxtSegmentLines(_, _, _)
TxtSegmentLines(seg, choices, gameclock) ==
    IF choices = <<>> THEN <<>>
    ELSE <<TxtLine(gameclock, seg,
                   IF choices[1].with10 THEN {<<2>>, <<1, 0>>} ELSE {<<2>>}, {<<5>>},
                   choices[1].withBall)>>
         \o TxtSegmentLines(seg, Tail(choices),
                            gameclock + (IF Len(choices) > 1 THEN choices[2].d ELSE 0))

\* the delta of the first line of a segment is not used: one choice stands for all
FirstDeltaFixed(choices) ==
    choices = <<>> \/ choices[1].d = CHOOSE d \in Deltas : \A e \in Deltas : d <= e

ChoicesOfLen(n) == {c \in [1..n -> TxtLineChoices] : FirstDeltaFixed(c)}

\* the txt files: the lines of segment 1, then the lines of segment 2, at
\* least one line and at most MaxLines lines in all
TxtInputs ==
    UNION {{TxtSegmentLines(1, c1, 0) \o TxtSegmentLines(2, c2, 0) :
               c1 \in ChoicesOfLen(n[1]), c2 \in ChoicesOfLen(n[2])} :
           n \in {m \in (0..MaxLines) \X (0..MaxLines) :
                     1 <= m[1] + m[2] /\ m[1] + m[2] <= MaxLines}}

\* _read_tracking_data_txt_single_line: (gameclock, segment, positions, ball)
_read_tracking_data_txt_single_line(line) ==
    [gameclock |-> line.gameclock,
     segment |-> line.segment,
     positions |-> line.positions,
     ball |-> IF line.ball # <<>> THEN [position |-> line.ball[1]] ELSE <<>>]

\* a teamsheet a caller may pass: player 11 is on no line of the files
SuppliedTxtHome == [kind |-> "Teamsheet", player |-> <<"a", "b", "c">>, jID |-> <<2, 11, 10>>]

\* a teamsheet a caller may pass: player 6 is on no line of the files
SuppliedTxtAway == [kind |-> "Teamsheet", player |-> <<"d", "e">>, jID |-> <<6, 5>>]

InitTrackingTxt ==
    /\ reader = "read_tracking_data_txt"
    /\ temp_file = FALSE
    /\ PlotIdle
    /\ pc = "time"
    /\ file \in TxtInputs
    /\ arg_home \in {None, SuppliedTxtHome}
    /\ arg_away \in IF arg_home = None THEN {None, SuppliedTxtAway} ELSE {None}
    /\ home_teamsheet = None
    /\ away_teamsheet = None
    /\ pos = 1
    /\ EvIdle
    /\ periods = <<>>
    /\ startframes = <<>>
    /\ endframes = <<>>
    /\ framerate_est = <<>>
    /\ last_sample = <<>>
    /\ links_jID_to_xID = <<>>
    /\ xydata = <<>>
    /\ xid_base \in {0, 1}
    /\ warned = {}
    /\ ret = None
    /\ err = ""

\* dict[key] = value
Put(dict, key, value) == [k \in DOMAIN dict \cup {key} |-> IF k = key THEN value ELSE dict[k]]

Abs(n) == IF n < 0 THEN -n ELSE n

\* int(1000 / delta) for delta > 0: the float quotient truncates to the
\* integer quotient for every delta of 1..2000
Estimate(delta) == 1000 \div delta

\* read_tracking_data_txt runs when it is called, and when
\* read_tracking_data_from_url calls it (lines 1244-1248)
TxtCallers == {"read_tracking_data_txt", "read_tracking_data_from_url"}

\* mutant of Diverging: a pair of any two consecutive lines counts
DivergingInAnySegment(est, delta, last_segment, seg) == est # Estimate(delta)

\* line 631: the estimate of a pair of lines of the same segment differs from
\* the current one
Diverging(est, delta, last_segment, seg) == est # Estimate(delta) /\ last_segment = seg

\* lines 615-644 of _read_time_information_from_tracking_data_txt: one line.
\* A delta of 0 makes 1000 / delta infinite, and int() of it raises.
TxtTimeLine ==
    /\ reader \in TxtCallers
    /\ pc = "time"
    /\ pos <= Len(file)
    /\ LET r == _read_tracking_data_txt_single_line(file[pos])
           first == r.segment \notin DOMAIN startframes
           delta == Abs(r.gameclock - last_sample[1])
       IN  IF last_sample # <<>> /\ delta = 0
           THEN /\ pc' = "error"
                /\ err' = "OverflowError line 630"
                /\ UNCHANGED <<pos, startframes, endframes, framerate_est, last_sample, warned>>
           ELSE /\ startframes' = IF first THEN Put(startframes, r.segment, r.gameclock)
                                  ELSE startframes
                /\ endframes' = IF first /\ last_sample # <<>>
                                THEN Put(endframes, last_sample[2], last_sample[1])
                                ELSE endframes
                /\ IF last_sample = <<>>
                   THEN UNCHANGED <<framerate_est, warned>>
                   ELSE IF framerate_est = <<>>
                   THEN /\ framerate_est' = <<Estimate(delta)>>
                        /\ UNCHANGED warned
                   ELSE IF Diverging(framerate_est[1], delta, last_sample[2], r.segment)
                   THEN /\ framerate_est' = <<Estimate(delta)>>
                        /\ warned' = warned \cup {<<"Framerate", framerate_est[1], Estimate(delta)>>}
                   ELSE UNCHANGED <<framerate_est, warned>>
                /\ last_sample' = <<r.gameclock, r.segment>>
                /\ pos' = pos + 1
                /\ UNCHANGED <<pc, err>>
    /\ UNCHANGED <<reader, temp_file, plotVars, file, arg_home, arg_away, home_teamsheet, away_teamsheet, evVars,
                   periods, links_jID_to_xID, xydata, xid_base, ret>>

\* lines 646-657: the end of the final segment, and the periods
TxtTimeEnd ==
    /\ reader \in TxtCallers
    /\ pc = "time"
    /\ pos > Len(file)
    /\ LET ends == Put(endframes, last_sample[2], last_sample[1])
       IN  /\ endframes' = ends
           /\ periods' = [seg \in DOMAIN startframes |-> <<startframes[seg], ends[seg]>>]
    /\ pc' = "setup"
    /\ UNCHANGED <<reader, temp_file, plotVars, file, arg_home, arg_away, home_teamsheet, away_teamsheet, pos,
                   evVars, startframes, framerate_est, last_sample, links_jID_to_xID, xydata,
                   xid_base, warned, ret, err>>

\* _read_jersey_numbers_from_tracking_data_txt: the jIDs of a team on all lines
JerseyNumbers(f, team) ==
    UNION {DOMAIN _read_tracking_data_txt_single_line(f[k]).positions[team] : k \in DOMAIN f}

\* names of the players of a derived teamsheet: f"player {i}"
PlayerName(i) == <<"player", i>>

\* read_teamsheets_from_tracking_data_txt: the sorted jersey strings, as numbers
TxtTeamsheet(f, team) ==
    LET jrsy == SortedStrings(JerseyNumbers(f, team))
    IN  [kind |-> "Teamsheet",
         player |-> [i \in DOMAIN jrsy |-> PlayerName(i - 1)],
         jID |-> [i \in DOMAIN jrsy |-> IntOf(jrsy[i])]]

read_teamsheets_from_tracking_data_txt(f) ==
    [Home |-> TxtTeamsheet(f, "Home"), Away |-> TxtTeamsheet(f, "Away")]

Max(S) == CHOOSE x \in S : \A y \in S : y <= x

\* lines 1058-1059: number_of_home_players / number_of_away_players
NumberOfPlayersTxt(links) == Max(Range(links)) + 1

\* int(clock / 1000 * framerate) for clock >= 0: for the frame rates and
\* clocks of the modelled files (16 and 25 Hz, clocks up to 400 ms) the float
\* expression truncates to the integer quotient
FrameOf(clock, framerate) == (clock * framerate) \div 1000

\* lines 1060-1064: number_of_frames[segment]
NumberOfFramesTxt(per, framerate) == FrameOf(per[2] - per[1], framerate) + 1

\* lines 1066-1082: bins
TxtBins(per, links, framerate) ==
    [Home |-> [seg \in DOMAIN per |->
                  Full(NumberOfFramesTxt(per[seg], framerate), NumberOfPlayersTxt(links.Home) * 2)],
     Away |-> [seg \in DOMAIN per |->
                  Full(NumberOfFramesTxt(per[seg], framerate), NumberOfPlayersTxt(links.Away) * 2)],
     Ball |-> [seg \in DOMAIN per |-> Full(NumberOfFramesTxt(per[seg], framerate), 2)]]

\* lines 1033-1082: teamsheets, links, shapes and bins. A file of one line
\* leaves framerate_est None, and the product with it raises.
TxtSetup ==
    /\ reader \in TxtCallers
    /\ pc = "setup"
    /\ LET derived == read_teamsheets_from_tracking_data_txt(file)
           home == WithXIDs(Resolve(arg_home, derived.Home), xid_base)
           away == WithXIDs(Resolve(arg_away, derived.Away), xid_base)
           links == [Home |-> get_links(home), Away |-> get_links(away)]
       IN  /\ home_teamsheet' = home
           /\ away_teamsheet' = away
           /\ arg_home' = IF arg_home = None THEN None ELSE home
           /\ arg_away' = IF arg_away = None THEN None ELSE away
           /\ links_jID_to_xID' = links
           /\ IF framerate_est = <<>>
              THEN /\ pc' = "error"
                   /\ err' = "TypeError line 1063"
                   /\ UNCHANGED <<xydata, pos>>
              ELSE /\ xydata' = TxtBins(periods, links, framerate_est[1])
                   /\ pos' = 1
                   /\ pc' = "lines"
                   /\ UNCHANGED err
    /\ UNCHANGED <<reader, temp_file, plotVars, file, evVars, periods, startframes, endframes, framerate_est,
                   last_sample, xid_base, warned, ret>>

\* xy[row, col] = value
SetCell(xy, row, col, value) ==
    [xy EXCEPT ![Index(row, Rows(xy))][Index(col, Columns(xy))] = value]

\* lines 1108-1115: the players of one team on a line, in any order (every
\* player has columns of its own)
RECURSIVE ScatterLineTeam(_, _, _, _, _)
ScatterLineTeam(xy, frame_rel, links, positions, jIDs) ==
    IF jIDs = {} THEN Result("", xy)
    ELSE LET jID == CHOOSE j \in jIDs : TRUE
             x_col == XCol(links[IntOf(jID)])
             y_col == YCol(links[IntOf(jID)])
         IN  IF IntOf(jID) \notin DOMAIN links THEN Result("KeyError line 1112", xy)
             ELSE IF ~ValidIndex(frame_rel, Rows(xy)) \/ ~ValidIndex(x_col, Columns(xy))
                     \/ ~ValidIndex(y_col, Columns(xy))
                  THEN Result("IndexError line 1114", xy)
             ELSE ScatterLineTeam(SetCell(SetCell(xy, frame_rel, x_col, positions[jID][1]),
                                          frame_rel, y_col, positions[jID][2]),
                                  frame_rel, links, positions, jIDs \ {jID})

\* line 1118: xydata["Ball"][segment][frame_rel] = ball.get("position", np.nan):
\* the row gets the position, or nan in both columns
ScatterLineBall(xy, frame_rel, ball) ==
    IF ~ValidIndex(frame_rel, Rows(xy)) THEN Result("IndexError line 1118", xy)
    ELSE Result("", [xy EXCEPT ![Index(frame_rel, Rows(xy))] =
                        IF "position" \in DOMAIN ball
                        THEN (0 :> ball.position[1] @@ 1 :> ball.position[2])
                        ELSE (0 :> NaN @@ 1 :> NaN)])

\* line 1105: frame_rel
FrameRel(gameclock, per, framerate) == FrameOf(gameclock - per[1], framerate)

\* lines 1089-1118: one line of the file
TxtScatterLine ==
    /\ reader \in TxtCallers
    /\ pc = "lines"
    /\ pos <= Len(file)
    /\ LET r == _read_tracking_data_txt_single_line(file[pos])
           seg == r.segment
           frame_rel == FrameRel(r.gameclock, periods[seg], framerate_est[1])
           home == ScatterLineTeam(xydata.Home[seg], frame_rel, links_jID_to_xID.Home,
                                   r.positions.Home, DOMAIN r.positions.Home)
           away == ScatterLineTeam(xydata.Away[seg], frame_rel, links_jID_to_xID.Away,
                                   r.positions.Away, DOMAIN r.positions.Away)
           ball == ScatterLineBall(xydata.Ball[seg], frame_rel, r.ball)
           failed == IF home.err # "" THEN home.err
                     ELSE IF away.err # "" THEN away.err ELSE ball.err
       IN  IF failed # ""
           THEN /\ pc' = "error"
                /\ err' = failed
                /\ UNCHANGED <<pos, xydata>>
           ELSE /\ xydata' = [Home |-> [xydata.Home EXCEPT ![seg] = home.xy],
                              Away |-> [xydata.Away EXCEPT ![seg] = away.xy],
                              Ball |-> [xydata.Ball EXCEPT ![seg] = ball.xy]]
                /\ pos' = pos + 1
                /\ UNCHANGED <<pc, err>>
    /\ UNCHANGED <<reader, temp_file, plotVars, file, arg_home, arg_away, home_teamsheet, away_teamsheet, evVars,
                   periods, startframes, endframes, framerate_est, last_sample,
                   links_jID_to_xID, xid_base, warned, ret>>

\* lines 1120-1139: the XY objects of segments 1 and 2
TxtAssemble ==
    /\ reader \in TxtCallers
    /\ pc = "lines"
    /\ pos > Len(file)
    /\ IF {1, 2} \subseteq DOMAIN periods
       THEN /\ ret' = [home_ht1 |-> xydata.Home[1], home_ht2 |-> xydata.Home[2],
                       away_ht1 |-> xydata.Away[1], away_ht2 |-> xydata.Away[2],
                       ball_ht1 |-> xydata.Ball[1], ball_ht2 |-> xydata.Ball[2],
                       framerate |-> framerate_est[1],
                       home_teamsheet |-> home_teamsheet,
                       away_teamsheet |-> away_teamsheet]
            /\ pc' = IF reader = "read_tracking_data_txt" THEN "done" ELSE "unpack"
            /\ UNCHANGED err
       ELSE /\ pc' = "error"
            /\ err' = "KeyError line 1121"
            /\ UNCHANGED ret
    /\ UNCHANGED <<reader, temp_file, plotVars, file, arg_home, arg_away, home_teamsheet, away_teamsheet, pos,
                   evVars, trkVars, warned>>

\* ------------------------------------------------ the two tracking readers
InitTracking == InitTrackingCsv \/ InitTrackingTxt

NextTrackingCsv ==
    \/ TrkCsvSetup
    \/ TrkCsvSegment
    \/ TrkCsvAssemble

NextTrackingTxt ==
    \/ TxtTimeLine
    \/ TxtTimeEnd
    \/ TxtSetup
    \/ TxtScatterLine
    \/ TxtAssemble

SpecTrackingCsv == InitTrackingCsv /\ [][NextTrackingCsv]_vars

SpecTrackingTxt == InitTrackingTxt /\ [][NextTrackingTxt]_vars

SpecTracking == InitTracking /\ [][NextTrackingCsv \/ NextTrackingTxt]_vars

\* ---- _read_time_information_from_tracking_data_txt on its own
\* largest number of lines of a file of the time reader
MaxTimeLines == 4

\* gameclock of the first line of segment 2
SecondHalfStarts == {0, 1000}

\* the files of the time reader: only gameclock and segment vary
TimeChoicesOfLen(n) ==
    {c \in [1..n -> [d : Deltas, with10 : {FALSE}, withBall : {FALSE}]] : FirstDeltaFixed(c)}

TimeInputs ==
    UNION {{TxtSegmentLines(1, c1, 0) \o TxtSegmentLines(2, c2, start) :
               c1 \in TimeChoicesOfLen(n[1]), c2 \in TimeChoicesOfLen(n[2]),
               start \in SecondHalfStarts} :
           n \in {m \in (0..MaxTimeLines) \X (0..MaxTimeLines) :
                     1 <= m[1] + m[2] /\ m[1] + m[2] <= MaxTimeLines}}

InitTime ==
    /\ reader = "read_tracking_data_txt"
    /\ temp_file = FALSE
    /\ PlotIdle
    /\ pc = "time"
    /\ file \in TimeInputs
    /\ arg_home = None
    /\ arg_away = None
    /\ home_teamsheet = None
    /\ away_teamsheet = None
    /\ pos = 1
    /\ EvIdle
    /\ periods = <<>>
    /\ startframes = <<>>
    /\ endframes = <<>>
    /\ framerate_est = <<>>
    /\ last_sample = <<>>
    /\ links_jID_to_xID = <<>>
    /\ xydata = <<>>
    /\ xid_base = 0
    /\ warned = {}
    /\ ret = None
    /\ err = ""

NextTime == TxtTimeLine \/ TxtTimeEnd

SpecTime == InitTime /\ [][NextTime]_vars

\* ---- the four readers on a few files each, with every choice of teamsheets
\* tracking csv files that parse: two segments, a ball row in every frame
SheetCsvFiles == {TrkCsvFile(<<1, 2, 4>>, F7, {1, 2, 4}) : F7 \in {{}, {1, 2}, {1, 2, 4}}}

\* tracking txt files that parse: two lines of segment 1, one of segment 2
SheetTxtFiles ==
    {TxtSegmentLines(1, c1, 0) \o TxtSegmentLines(2, c2, 0) :
        c1 \in [1..2 -> [d : {40}, with10 : BOOLEAN, withBall : {TRUE}]],
        c2 \in [1..1 -> [d : {40}, with10 : BOOLEAN, withBall : {TRUE}]]}

InitSheetsCsv ==
    /\ reader = "read_open_tracking_data_csv"
    /\ temp_file = FALSE
    /\ PlotIdle
    /\ pc = "start"
    /\ file \in SheetCsvFiles
    /\ arg_home \in {None, SuppliedTrkHome}
    /\ arg_away \in {None, SuppliedTrkAway}
    /\ home_teamsheet = None
    /\ away_teamsheet = None
    /\ pos = 0
    /\ EvIdle
    /\ periods = <<>>
    /\ startframes = <<>>
    /\ endframes = <<>>
    /\ framerate_est = <<>>
    /\ last_sample = <<>>
    /\ links_jID_to_xID = <<>>
    /\ xydata = <<>>
    /\ xid_base \in {0, 1}
    /\ warned = {}
    /\ ret = None
    /\ err = ""

InitSheetsTxt ==
    /\ reader = "read_tracking_data_txt"
    /\ temp_file = FALSE
    /\ PlotIdle
    /\ pc = "time"
    /\ file \in SheetTxtFiles
    /\ arg_home \in {None, SuppliedTxtHome}
    /\ arg_away \in {None, SuppliedTxtAway}
    /\ home_teamsheet = None
    /\ away_teamsheet = None
    /\ pos = 1
    /\ EvIdle
    /\ periods = <<>>
    /\ startframes = <<>>
    /\ endframes = <<>>
    /\ framerate_est = <<>>
    /\ last_sample = <<>>
    /\ links_jID_to_xID = <<>>
    /\ xydata = <<>>
    /\ xid_base \in {0, 1}
    /\ warned = {}
    /\ ret = None
    /\ err = ""

InitSheets == InitEvents \/ InitSheetsCsv \/ InitSheetsTxt

NextSheets == NextEvents \/ NextTrackingCsv \/ NextTrackingTxt

SpecSheets == InitSheets /\ [][NextSheets]_vars

\* ---- read_event_data_from_url and read_tracking_data_from_url
\* lines 1128-1137: the tuple that read_tracking_data_txt returns
TxtDataObjects == <<"home_ht1", "home_ht2", "away_ht1", "away_ht2", "ball_ht1", "ball_ht2",
                    "home_teamsheet", "away_teamsheet">>

\* lines 1236-1243: the names the returned tuple is unpacked to
UrlTargets == <<"home_ht1", "home_ht2", "away_ht1", "away_ht2", "ball_ht1", "ball_ht2">>

\* downloaded files: some that read_tracking_data_txt parses, and files of one
\* segment, on which it raises
UrlFiles ==
    SheetTxtFiles
    \cup {TxtSegmentLines(1, c, 0) :
             c \in UNION {[1..n -> [d : {40}, with10 : {FALSE}, withBall : BOOLEAN]] : n \in 1..2}}

InitUrl ==
    /\ reader = "read_tracking_data_from_url"
    /\ temp_file = FALSE
    /\ PlotIdle
    /\ pc = "download"
    /\ file \in UrlFiles
    /\ arg_home \in {None, SuppliedTxtHome}
    /\ arg_away \in {None, SuppliedTxtAway}
    /\ home_teamsheet = None
    /\ away_teamsheet = None
    /\ pos = 1
    /\ EvIdle
    /\ periods = <<>>
    /\ startframes = <<>>
    /\ endframes = <<>>
    /\ framerate_est = <<>>
    /\ last_sample = <<>>
    /\ links_jID_to_xID = <<>>
    /\ xydata = <<>>
    /\ xid_base \in {0, 1}
    /\ warned = {}
    /\ ret = None
    /\ err = ""

\* lines 969-976: the tuple that read_event_data_xml returns
XmlDataObjects == <<"home_ht1", "home_ht2", "away_ht1", "away_ht2", "pitch",
                    "home_teamsheet", "away_teamsheet">>

\* lines 1180-1188: the names the returned tuple is unpacked to
EventUrlTargets == <<"home_ht1", "home_ht2", "away_ht1", "away_ht2", "pitch",
                     "home_teamsheet", "away_teamsheet">>

InitEventUrl ==
    /\ reader = "read_event_data_from_url"
    /\ temp_file = FALSE
    /\ PlotIdle
    /\ pc = "download"
    /\ file \in XmlFiles
    /\ arg_home \in {None, SuppliedXmlHome}
    /\ arg_away = None
    /\ home_teamsheet = None
    /\ away_teamsheet = None
    /\ pos = 1
    /\ segment = ""
    /\ events = <<>>
    /\ event_lists = <<>>
    /\ TrkIdle
    /\ warned = {}
    /\ ret = None
    /\ err = ""

\* lines 1174-1179 and 1226-1234: the download is written to the temporary
\* file, and the reader of the format is called on it
UrlDownload ==
    /\ reader \in {"read_event_data_from_url", "read_tracking_data_from_url"}
    /\ pc = "download"
    /\ temp_file' = TRUE
    /\ pc' = IF reader = "read_tracking_data_from_url" THEN "time" ELSE "start"
    /\ UNCHANGED <<reader, plotVars, file, arg_home, arg_away, home_teamsheet, away_teamsheet, pos,
                   evVars, trkVars, warned, ret, err>>

\* lines 1236-1266: the tuple that read_tracking_data_txt returned is unpacked
\* (a tuple of another length than the targets raises ValueError), the result
\* is built from the unpacked objects and the two parameters, and the
\* temporary file is removed
UrlFinish ==
    /\ reader = "read_tracking_data_from_url"
    /\ pc = "unpack"
    /\ IF Len(TxtDataObjects) # Len(UrlTargets)
       THEN /\ pc' = "error"
            /\ err' = "ValueError line 1236"
            /\ ret' = None
            /\ UNCHANGED temp_file
       ELSE /\ ret' = [n \in Range(UrlTargets) |-> ret[n]]
                      @@ [home_teamsheet |-> arg_home, away_teamsheet |-> arg_away]
            /\ temp_file' = FALSE
            /\ pc' = "done"
            /\ UNCHANGED err
    /\ UNCHANGED <<reader, plotVars, file, arg_home, arg_away, home_teamsheet, away_teamsheet, pos,
                   evVars, trkVars, warned>>

\* lines 1180-1203: the tuple that read_event_data_xml returned is unpacked,
\* packed again in the same order, and the temporary file is removed
EventUrlFinish ==
    /\ reader = "read_event_data_from_url"
    /\ pc = "unpack"
    /\ IF Len(XmlDataObjects) # Len(EventUrlTargets)
       THEN /\ pc' = "error"
            /\ err' = "ValueError line 1180"
            /\ ret' = None
            /\ UNCHANGED temp_file
       ELSE /\ ret' = [n \in Range(EventUrlTargets) \cap DOMAIN ret |-> ret[n]]
            /\ temp_file' = FALSE
            /\ pc' = "done"
            /\ UNCHANGED err
    /\ UNCHANGED <<reader, plotVars, file, arg_home, arg_away, home_teamsheet, away_teamsheet, pos,
                   evVars, trkVars, warned>>

NextUrl ==
    \/ UrlDownload
    \/ NextTrackingTxt
    \/ UrlFinish
    \/ XmlSetup
    \/ XmlNode
    \/ XmlAssemble
    \/ EventUrlFinish

SpecUrl == (InitUrl \/ InitEventUrl) /\ [][NextUrl]_vars

\* --------------------------------------------- claims on the tracking readers
IsTrkCsv == reader = "read_open_tracking_data_csv"
IsTxt == reader = "read_tracking_data_txt"

\* the buffers are allocated
Allocated == (IsTrkCsv /\ pc \in {"segments", "done"}) \/ (IsTxt /\ pc \in {"lines", "done"})

\* number of frames the source holds for a segment: the frame numbers of the
\* csv file inside the period, the lines of the txt file with that segment
SourceFrames(seg) ==
    IF IsTrkCsv
    THEN Cardinality({file[k].frame_count : k \in {j \in DOMAIN file :
                         InPeriod(periods[seg], file[j].frame_count)}})
    ELSE Cardinality({k \in DOMAIN file : file[k].segment = seg})

Teamsheet(team) == IF team = "Home" THEN home_teamsheet ELSE away_teamsheet

\* C6: for every parsed tracking source and every segment each team buffer has
\* as many rows as the segment has frames and 2 x (roster entries of the team)
\* columns, and the ball buffer has the same number of rows and 2 columns.
C6_BufferShapes ==
    ((IsTrkCsv \/ IsTxt) /\ pc = "done") =>
        \A seg \in DOMAIN periods :
            /\ \A team \in {"Home", "Away"} :
                  /\ Rows(xydata[team][seg]) = SourceFrames(seg)
                  /\ Columns(xydata[team][seg]) = 2 * Len(Teamsheet(team).jID)
            /\ Rows(xydata.Ball[seg]) = SourceFrames(seg)
            /\ Columns(xydata.Ball[seg]) = 2

\* number of player slots of the buffers of a team
Slots(team) == Columns(xydata[team][CHOOSE seg \in DOMAIN periods : TRUE]) \div 2

\* C7: the readers use one index base: the columns computed for every player
\* lie inside [0, 2 x slots), players with distinct xIDs have disjoint column
\* pairs, the player with the smallest xID has columns (0, 1), and every
\* allocated slot has a player.
C7_OneIndexBase ==
    Allocated =>
        \A team \in {"Home", "Away"} :
            LET links == links_jID_to_xID[team]
                xIDs == Range(links)
            IN  /\ \A x \in xIDs :
                      /\ 0 <= XCol(x) /\ XCol(x) < 2 * Slots(team)
                      /\ 0 <= YCol(x) /\ YCol(x) < 2 * Slots(team)
                /\ \A x, y \in xIDs : x # y => {XCol(x), YCol(x)} \cap {XCol(y), YCol(y)} = {}
                /\ \A x \in xIDs : (\A y \in xIDs : x <= y) => (XCol(x) = 0 /\ YCol(x) = 1)
                /\ {XCol(x) \div 2 : x \in xIDs} = 0..(Slots(team) - 1)

\* the rows of the csv file for a team, jersey and frame
TrkRowsOf(tID, jersey, frame) ==
    {k \in DOMAIN file : /\ file[k].team_id = tID
                         /\ file[k].jersey_no = jersey
                         /\ file[k].frame_count = frame}

\* the two cells of the player with index xID in row r
Cells(xy, r, xID) ==
    <<xy[r][Index(XCol(xID), Columns(xy))], xy[r][Index(YCol(xID), Columns(xy))]>>

\* C8: read_open_tracking_data_csv: for every segment, player and frame the
\* two cells of the player hold the position of the row of that player and
\* frame, and nan when there is no such row, also for a player that is missing
\* between its first and its last frame of a segment: the parse does not fail
\* on such a player.
C8_CellsHoldRowsOrNaN ==
    IsTrkCsv =>
        /\ err # "ValueError line 442"
        /\ pc = "done" =>
              \A seg \in DOMAIN periods : \A team \in {"Home", "Away"} :
                  \A jersey \in DOMAIN links_jID_to_xID[team] :
                      \A frame \in periods[seg][1]..periods[seg][2] :
                          LET rows == TrkRowsOf(team_ids[team], jersey, frame)
                              cells == Cells(xydata[team][seg], frame - periods[seg][1],
                                             links_jID_to_xID[team][jersey])
                          IN  IF rows = {} THEN cells = <<NaN, NaN>>
                              ELSE \E k \in rows : cells = <<file[k].pos_x, file[k].pos_y>>

\* the lines of the txt file read by the scatter loop so far
TxtScattered == IF pc = "lines" THEN 1..(pos - 1) ELSE DOMAIN file

\* the lines read so far that belong to row r of segment seg
TxtLinesOfRow(seg, r) ==
    {k \in TxtScattered :
        /\ file[k].segment = seg
        /\ Index(FrameRel(file[k].gameclock, periods[seg], framerate_est[1]),
                 Rows(xydata.Ball[seg])) = r}

\* the columns of a player of a team, as the scatter loop computes them
TxtColumns(team, seg, jID) ==
    {Index(XCol(links_jID_to_xID[team][IntOf(jID)]), Columns(xydata[team][seg])),
     Index(YCol(links_jID_to_xID[team][IntOf(jID)]), Columns(xydata[team][seg]))}

AllNaN(xy) == \A r \in DOMAIN xy : \A c \in DOMAIN xy[r] : xy[r][c] = NaN

NoBallChunks == \A k \in DOMAIN file : file[k].ball = <<>>

BallRowsOf(frame) == {k \in DOMAIN file : file[k].team_id = ball_id /\ file[k].frame_count = frame}

\* C10: read_open_tracking_data_csv: a file without ball rows, or without a
\* ball row for some frames of a segment, parses without an exception, and the
\* ball buffer of each segment has the shape (frames of the segment, 2) with
\* nan in the rows without ball data.
C10_MissingBallRowsGiveNaN ==
    IsTrkCsv =>
        /\ err \notin {"IndexError line 451", "ValueError line 451"}
        /\ pc = "done" =>
              \A seg \in DOMAIN periods :
                  /\ Rows(xydata.Ball[seg]) = SourceFrames(seg)
                  /\ Columns(xydata.Ball[seg]) = 2
                  /\ \A frame \in periods[seg][1]..periods[seg][2] :
                        BallRowsOf(frame) = {} =>
                            xydata.Ball[seg][frame - periods[seg][1]] = (0 :> NaN @@ 1 :> NaN)

\* C11: read_open_tracking_data_csv: the ball buffer of each segment holds
\* (x, y) pairs: for every frame of the segment with a ball row, column 0 is
\* the pos_x and column 1 is the pos_y of the ball row of that frame.
C11_BallBufferHoldsXY ==
    (IsTrkCsv /\ pc = "done") =>
        \A seg \in DOMAIN periods : \A frame \in periods[seg][1]..periods[seg][2] :
            \A k \in BallRowsOf(frame) :
                /\ xydata.Ball[seg][frame - periods[seg][1]][0] = file[k].pos_x
                /\ xydata.Ball[seg][frame - periods[seg][1]][1] = file[k].pos_y

\* round(a / b) for a >= 0, b > 0: to the nearest integer, a half to the even one
Round(a, b) ==
    LET q == a \div b
        r == a % b
    IN  IF 2 * r < b THEN q
        ELSE IF 2 * r > b THEN q + 1
        ELSE IF q % 2 = 0 THEN q ELSE q + 1

\* the pairs of consecutive lines of the same segment, as the second line's number
SameSegmentPairs == {k \in 2..Len(file) : file[k].segment = file[k - 1].segment}

\* the gameclock delta of the pair that ends at line k
DeltaOf(k) == Abs(file[k].gameclock - file[k - 1].gameclock)

\* _read_time_information_from_tracking_data_txt has returned
TimeRead == IsTxt /\ pc \in {"setup", "lines", "done"}

\* C12: for a txt file whose pairs of consecutive lines of the same segment
\* all have the same gameclock delta d > 0,
\* _read_time_information_from_tracking_data_txt returns the framerate
\* round(1000 / d), and warns of no diverging estimate.
C12_FramerateIsRounded ==
    TimeRead =>
        \A k \in SameSegmentPairs :
            (\A j \in SameSegmentPairs : DeltaOf(j) = DeltaOf(k)) =>
                /\ framerate_est = <<Round(1000, DeltaOf(k))>>
                /\ \A w \in warned : w[1] # "Framerate"

\* the lines _read_time_information_from_tracking_data_txt has read
TimeScanned ==
    IF pc = "time" \/ err = "OverflowError line 630" THEN 1..(pos - 1) ELSE DOMAIN file

\* the same-segment pairs read so far
ScannedPairs == SameSegmentPairs \cap TimeScanned

\* C13: last-wins framerate policy of
\* _read_time_information_from_tracking_data_txt: a pair of consecutive lines
\* of the same segment whose estimate differs from the current one gives a
\* warning, the scan goes on and the estimate becomes the one of the pair; a
\* pair that spans a segment change never replaces an estimate. So after every
\* prefix of the file with a same-segment pair the estimate is the one of the
\* last same-segment pair read, and so is the returned framerate.
C13_LastEstimateWins ==
    /\ [](IsTxt /\ ScannedPairs # {} =>
              framerate_est = <<Estimate(DeltaOf(Max(ScannedPairs)))>>)
    /\ [][(IsTxt /\ pc = "time" /\ pos \in 2..Len(file) /\ framerate_est # <<>>) =>
              IF /\ file[pos].segment = file[pos - 1].segment
                 /\ Estimate(DeltaOf(pos)) # framerate_est[1]
              THEN /\ <<"Framerate", framerate_est[1], Estimate(DeltaOf(pos))>> \in warned'
                   /\ framerate_est' = <<Estimate(DeltaOf(pos))>>
                   /\ pc' = "time" /\ pos' = pos + 1
              ELSE (file[pos].segment # file[pos - 1].segment) =>
                       (framerate_est' = framerate_est /\ warned' = warned)]_vars

\* a file has been read in which the second pair of segment 1 changed the
\* estimate from 25 to 16 and the pair that spans the segment change, with an
\* estimate of 1, left it alone
C13_Witness ==
    /\ IsTxt /\ pc = "setup"
    /\ Len(file) = 4
    /\ file[3].segment = 1 /\ file[4].segment = 2
    /\ DeltaOf(2) = 40 /\ DeltaOf(3) = 60
    /\ Estimate(DeltaOf(4)) # 16
    /\ framerate_est = <<16>>
    /\ <<"Framerate", 25, 16>> \in warned

\* the teamsheet the caller passed for a team, or None
Supplied(team) == IF team = "Home" THEN arg_home ELSE arg_away

\* C14: read_teamsheets_from_tracking_data_txt gives each team a roster with
\* every jersey number of the team in the file exactly once, in ascending
\* numeric order (2 before 10), named 'player 0' .. 'player N-1' in that order.
C14_TxtRosterAscending ==
    (IsTxt /\ pc \in {"lines", "done"}) =>
        \A team \in {"Home", "Away"} :
            Supplied(team) = None =>
                LET ts == Teamsheet(team)
                    jerseys == {IntOf(j) : j \in JerseyNumbers(file, team)}
                IN  /\ Range(ts.jID) = jerseys
                    /\ Len(ts.jID) = Cardinality(jerseys)
                    /\ \A i, j \in DOMAIN ts.jID : i < j => ts.jID[i] < ts.jID[j]
                    /\ \A i \in DOMAIN ts.player : ts.player[i] = PlayerName(i - 1)

\* the records of f with records i and j exchanged
SwapRecords(f, i, j) ==
    [k \in DOMAIN f |-> IF k = i THEN f[j] ELSE IF k = j THEN f[i] ELSE f[k]]

\* C15: the roster derived from a tracking source does not depend on the
\* order of the records: for read_teamsheets_from_tracking_data_txt and
\* read_teamsheets_from_open_data_csv a file with the same records in another
\* order (here: two records exchanged) gives the sequence of jersey numbers
\* that the reader derived for the team.
C15_RosterIndependentOfRecordOrder ==
    Allocated =>
        \A team \in {"Home", "Away"} :
            Supplied(team) = None =>
                \A i, j \in DOMAIN file :
                    /\ IsTxt =>
                          read_teamsheets_from_tracking_data_txt(SwapRecords(file, i, j))[team].jID
                              = Teamsheet(team).jID
                    /\ IsTrkCsv =>
                          read_teamsheets_from_open_data_csv(SwapRecords(file, i, j))[team].jID
                              = Teamsheet(team).jID

\* C16: a parse call never modifies a teamsheet of the caller: no step of
\* read_open_tracking_data_csv or read_tracking_data_txt changes the columns
\* or values of a teamsheet that was passed in.
C16_SuppliedTeamsheetUnchanged ==
    [][(IsTrkCsv \/ IsTxt) => (arg_home' = arg_home /\ arg_away' = arg_away)]_vars

\* the teamsheets of both sides are settled
Resolved == home_teamsheet # None /\ away_teamsheet # None

\* a teamsheet without the xID column
WithoutXIDs(ts) == [c \in DOMAIN ts \ {"xID"} |-> ts[c]]

\* the rosters the reader derives from its file
DerivedFromFile ==
    CASE IsCsv -> read_teamsheets_from_open_data_csv(ReadEventCsv(file))
      [] IsXml -> read_teamsheets_from_event_data_xml(file)
      [] IsTrkCsv -> read_teamsheets_from_open_data_csv(file)
      [] IsTxt -> read_teamsheets_from_tracking_data_txt(file)

\* the teamsheet a reader returned for a team
Returned(team) == IF team = "Home" THEN ret.home_teamsheet ELSE ret.away_teamsheet

C18_UnknownTeamIdNotFatal ==
    IsCsv =>
        /\ err # "KeyError"
        /\ pc # "start" =>
              \A id \in CsvProcessed :
                  CsvLineOf(id).team_id \notin {"", "1", "2"} =>
                      /\ warned # {}
                      /\ \E t \in DOMAIN events :
                            Occurrences(CsvIds(events[t][CsvLineOf(id).current_phase]), id) >= 1

\* a line below the head that does not fit the 20-field format
Malformed(line) ==
    /\ line.current_phase # "current_phase"
    /\ \/ line.n_fields # 20
       \/ line.gameclock \notin NumericStrings
       \/ line.frameclock \notin NumericStrings

\* C19: read_open_event_data_csv on a line that has fewer or more than 20
\* fields, or no number as gameclock or frame: the line is never passed by
\* (neither skipped nor read on), it yields no event, and the parse ends on
\* it with a MalformedRecord error.
C19_MalformedLineAborts ==
    (IsCsv /\ pc # "start") =>
        \A k \in DOMAIN file :
            Malformed(file[k]) =>
                /\ pos <= k
                /\ \A t \in DOMAIN events : \A seg \in DOMAIN events[t] :
                      Occurrences(CsvIds(events[t][seg]), file[k].event_id) = 0
                /\ (pc = "error" /\ pos = k) => err = "MalformedRecord"

\* --------------------------------------------- claims on the readers from a url
IsTrackingUrl == reader = "read_tracking_data_from_url"

\* C20: when read_tracking_data_txt parses the download,
\* read_tracking_data_from_url raises nothing of its own and returns the tuple
\* (home_ht1, home_ht2, away_ht1, away_ht2, ball_ht1, ball_ht2,
\* home_teamsheet, away_teamsheet) of the XY objects and teamsheets that
\* read_tracking_data_txt produced.
C20_UrlReturnsWhatTxtProduced ==
    IsTrackingUrl =>
        /\ err # "ValueError line 1236"
        /\ pc = "done" =>
              /\ DOMAIN ret = Range(TxtDataObjects)
              /\ ret.home_ht1 = xydata.Home[1] /\ ret.home_ht2 = xydata.Home[2]
              /\ ret.away_ht1 = xydata.Away[1] /\ ret.away_ht2 = xydata.Away[2]
              /\ ret.ball_ht1 = xydata.Ball[1] /\ ret.ball_ht2 = xydata.Ball[2]
              /\ ret.home_teamsheet = home_teamsheet
              /\ ret.away_teamsheet = away_teamsheet

IsEventUrl == reader = "read_event_data_from_url"

\* C21: read_event_data_from_url and read_tracking_data_from_url remove the
\* temporary file of the download: once a call has ended, by returning or by
\* raising during parsing, the temporary file does not exist.
C21_TempFileRemoved ==
    ((IsEventUrl \/ IsTrackingUrl) /\ pc \in {"done", "error"}) => temp_file = FALSE


\* ---------------------------------------------------------------------------
\* floodlight/vis/events.py: plot_events(events, start, end, use_frameclock, ax)
\* ---------------------------------------------------------------------------

MaxPlotEvents == 2

\* the rows of events.events as far as plot_events reads them; an event can
\* lack either coordinate
PlotClocks == {1, 2, 3}
PlotRows ==
    {[gameclock |-> c, frameclock |-> 10 * c, at_x |-> x, at_y |-> y] :
        c \in PlotClocks, x \in {NaN, 5}, y \in {NaN, 6}}
PlotTables == UNION {[1..n -> PlotRows] : n \in 0..MaxPlotEvents}

\* the values of start and end: omitted (None), or a time on either clock
PlotStarts == {<<>>, <<2>>, <<20>>}
PlotEnds == {<<>>, <<3>>, <<30>>}

\* line 40
col == IF use_frameclock THEN "frameclock" ELSE "gameclock"

\* line 43, start <= event[col] < end: the chain compares start with the value
\* first and compares the value with end only if the first comparison holds;
\* a comparison with None raises TypeError
ChainRaises(value) ==
    \/ arg_start = <<>>
    \/ arg_start[1] <= value /\ arg_end = <<>>
ChainHolds(value) ==
    /\ arg_start # <<>> /\ arg_end # <<>>
    /\ arg_start[1] <= value /\ value < arg_end[1]

InitPlot ==
    /\ reader = "plot_events"
    /\ pc = "loop"
    /\ file \in PlotTables
    /\ arg_start \in PlotStarts
    /\ arg_end \in PlotEnds
    /\ use_frameclock \in BOOLEAN
    /\ drawn = <<>>
    /\ arg_home = None /\ arg_away = None
    /\ home_teamsheet = None /\ away_teamsheet = None
    /\ pos = 1
    /\ EvIdle /\ TrkIdle
    /\ warned = {}
    /\ ret = None
    /\ temp_file = FALSE
    /\ err = ""

\* lines 42-49: one pass of the loop over the rows
PlotEvent ==
    /\ reader = "plot_events" /\ pc = "loop"
    /\ pos <= Len(file)
    /\ LET event == file[pos]
           at_x == event.at_x
           at_y == event.at_y
       IN  IF ChainRaises(event[col])
           THEN /\ pc' = "error" /\ err' = "TypeError line 43"
                /\ UNCHANGED <<pos, drawn>>
           ELSE /\ pos' = pos + 1
                /\ drawn' = IF ChainHolds(event[col]) /\ at_x # NaN /\ at_y # NaN
                            THEN Append(drawn, <<at_x, at_y>>)
                            ELSE drawn
                /\ UNCHANGED <<pc, err>>
    /\ UNCHANGED <<reader, temp_file, arg_start, arg_end, use_frameclock, file, arg_home,
                   arg_away, home_teamsheet, away_teamsheet, evVars, trkVars, warned, ret>>

\* line 51: return ax
PlotReturn ==
    /\ reader = "plot_events" /\ pc = "loop"
    /\ pos > Len(file)
    /\ pc' = "done"
    /\ ret' = [kind |-> "ax", points |-> drawn]
    /\ UNCHANGED <<reader, temp_file, plotVars, file, arg_home, arg_away, home_teamsheet,
                   away_teamsheet, pos, evVars, trkVars, warned, err>>

NextPlot == PlotEvent \/ PlotReturn

SpecPlot == InitPlot /\ [][NextPlot]_vars

\* ---------------------------------------------------------------------------
\* claims on plot_events
\* ---------------------------------------------------------------------------

IsPlot == reader = "plot_events"

\* the interval of a call: an omitted start or end leaves that side open
InInterval(value) ==
    /\ (arg_start = <<>> \/ arg_start[1] <= value)
    /\ (arg_end = <<>> \/ value < arg_end[1])

\* the points of the events with a location whose time lies in the interval
RECURSIVE PointsIn(_)
PointsIn(rows) ==
    IF rows = <<>> THEN <<>>
    ELSE LET event == rows[Len(rows)]
             rest == PointsIn(SubSeq(rows, 1, Len(rows) - 1))
         IN  IF InInterval(event[col]) /\ event.at_x # NaN /\ event.at_y # NaN
             THEN Append(rest, <<event.at_x, event.at_y>>)
             ELSE rest

\* C22: plot_events draws exactly the events with a location whose time on the
\* chosen clock lies in the interval from start to end; start and end may be
\* omitted, and a call with neither raises nothing and draws every event that
\* has a location.
C22_DrawsEventsInInterval ==
    IsPlot =>
        /\ err = ""
        /\ pc = "done" => drawn = PointsIn(file)


\* ---------------------------------------------------------------------------
\* claims on the outcome of an event (read_open_event_data_csv)
\* ---------------------------------------------------------------------------

\* the description holds the word between two spaces or ends of the text
HasToken(description, word) ==
    \E i \in DOMAIN description :
        /\ description[i] = word
        /\ (i = 1 \/ description[i - 1] = " ")
        /\ (i = Len(description) \/ description[i + 1] = " ")

\* the outcome of the description, by cases
OutcomeByCases(description) ==
    CASE HasToken(description, "Won") -> 1
      [] HasToken(description, "Lost") /\ ~HasToken(description, "Won") -> 0
      [] OTHER -> NaN

\* the description (field 5) of the line a row was read from
DescriptionOf(row) == CsvLineOf(row.qualifier.event_id).eID

\* the rows in the bins, and the rows of the returned tables
BinnedRows ==
    UNION {Range(events[t][s]) : t \in DOMAIN events, s \in segments_csv}
ReturnedRows ==
    Range(ret.home_ht1) \cup Range(ret.home_ht2)
        \cup Range(ret.away_ht1) \cup Range(ret.away_ht2)

\* C23: _read_open_event_csv_single_line: the outcome of an event is 1 when its
\* description holds the token Won, 0 when it holds the token Lost and not Won,
\* and NaN in every other case; it is 0 only for a description with the token
\* Lost.
C23_OutcomeThreeValued ==
    IsCsv =>
        \A row \in BinnedRows \cup (IF pc = "done" THEN ReturnedRows ELSE {}) :
            /\ row.outcome = OutcomeByCases(DescriptionOf(row))
            /\ row.outcome = 0 => HasToken(DescriptionOf(row), "Lost")

\* a returned event without outcome whose description holds the text Lost
\* inside a longer token, next to one with neither word
C23_Witness ==
    /\ IsCsv /\ pc = "done"
    /\ \E row \in ReturnedRows :
           /\ row.outcome = NaN
           /\ "Lost" \in Range(DescriptionOf(row))
           /\ " " \in Range(DescriptionOf(row))


\* the row index the scatter loop computes for line k
TxtRowIndex(k) ==
    FrameRel(file[k].gameclock, periods[file[k].segment], framerate_est[1])

\* C24: read_tracking_data_txt: no two lines of a segment read so far are
\* written to the same row, and the row index of every line read so far lies
\* in [0, rows of the buffer of its segment), whatever frame rate the
\* estimator returned.
C24_EachLineItsOwnRow ==
    (IsTxt /\ pc \in {"lines", "done"}) =>
        /\ \A k \in TxtScattered :
              /\ 0 <= TxtRowIndex(k)
              /\ TxtRowIndex(k) < Rows(xydata.Ball[file[k].segment])
        /\ \A k, j \in TxtScattered :
              (k # j /\ file[k].segment = file[j].segment) =>
                  TxtRowIndex(k) # TxtRowIndex(j)


\* the call has left the loops over the segments or lines: it has returned, or
\* it has raised while the returned objects were made
PastScatter ==
    /\ pc \in {"done", "error"}
    /\ xydata # <<>>
    /\ IsTrkCsv => pos \notin DOMAIN periods
    /\ IsTxt => pos > Len(file)

\* the buffers of a segment, and the buffers returned for a half
BuffersOf(seg) == <<xydata.Home[seg], xydata.Away[seg], xydata.Ball[seg]>>
ReturnedHalves == {<<ret.home_ht1, ret.away_ht1, ret.ball_ht1>>,
                   <<ret.home_ht2, ret.away_ht2, ret.ball_ht2>>}

\* C25: read_open_tracking_data_csv and read_tracking_data_txt: for a file in
\* which one or more segments are detected, the call that has filled the
\* buffers of every segment returns without error, and the returned objects
\* hold the buffers of every detected segment.
C25_EverySegmentReturned ==
    ((IsTrkCsv \/ IsTxt) /\ periods # <<>> /\ PastScatter) =>
        /\ err = ""
        /\ \A seg \in DOMAIN periods : BuffersOf(seg) \in ReturnedHalves

====
